---- MODULE Spec2Model ----
(***************************************************************************)
(* A model of the execution and verification engine of the API testing     *)
(* backend: the bounded-concurrency dispatcher (runner.py, run_case.py),   *)
(* the expectation validator and evaluator (validator.py), the test-case   *)
(* authoring endpoints (routers/api_cases), the direct executor            *)
(* (routers/runner/execute_direct.py), the two placeholder resolvers       *)
(* (utils.py, routers/environment/resolve_variables.py), the header merges *)
(* (config.py, routers/api_cases/get_case.py), the report views, and the   *)
(* tables behind the other routers: environments (routers/environment),    *)
(* nodes (routers/node), one-time passwords and sessions (routers/sso,     *)
(* security.py).                                                           *)
(*                                                                         *)
(* Conventions.  A Python str is a sequence of symbols (one-character TLA+ *)
(* strings, or a whole word standing for an identifier).  A JSON value is  *)
(* a pair <<kind, payload>>: kinds "null", "bool", "num", "str", "arr"     *)
(* (payload a sequence of JSON values) and "obj" (payload a function from  *)
(* keys to JSON values).  A Python exception raised by a function is the   *)
(* value Raised(name).                                                     *)
(***************************************************************************)
EXTENDS Integers, Sequences, FiniteSets, TLC

VARIABLES
    mode,       \* dispatcher: "direct" (run_tests) or "selective" (_run_for_files)
    conc,       \* dispatcher: the caller-supplied concurrency
    ncases,     \* dispatcher: cases matched by one run_tests call
    outerFree,  \* dispatcher: free permits of the outer semaphore of _run_for_files
    call,       \* dispatcher: per run_tests call, its state, semaphore and client
    cs,         \* dispatcher: per call and case, the state of its _run_case task
    top,        \* dispatcher: the state and flat result of the whole run
    fn,         \* call: the function or endpoint called, "none" before the call
    arg,        \* call: its arguments
    ret,        \* call: what it returned or raised
    cases,      \* authoring: the rows of the api_cases table, in insertion order
    ex,         \* direct executor: the state of one execute_api_direct request
    environments, \* environments: the rows of the table, by id; a deleted row is kept as not live
    nodes,      \* nodes: the rows of the nodes table, by id
    otp,        \* password reset: the clock and the otp_attempts row of one user
    cache       \* sessions: the rows of the sso_cache table, and the tokens logged out

runVars == <<mode, conc, ncases, outerFree, call, cs, top>>
callVars == <<fn, arg, ret>>

\* the tables of the other routers
dbVars == <<environments, nodes, otp, cache>>

vars == <<runVars, callVars, cases, ex, dbVars>>

\* each part of the model at rest, while another part runs
IdleRun ==
    /\ mode = "none" /\ conc = 1 /\ ncases = 1 /\ outerFree = 1
    /\ call = <<>> /\ cs = <<>>
    /\ top = [st |-> "returned", flat |-> <<>>]
IdleCall == fn = "none" /\ arg = <<>> /\ ret = <<>>
IdleStore == cases = <<>>
IdleExec == ex = [pc |-> "idle"]
IdleEnv == environments = <<>>
IdleNodes == nodes = <<>>
IdleOtp == otp = [now |-> 0]
IdleCache == cache = [rows |-> {}, loggedOut |-> {}]
IdleDb == IdleEnv /\ IdleNodes /\ IdleOtp /\ IdleCache

\* the variables the dispatcher leaves alone, and their values while it runs
offRun == <<callVars, cases, ex, dbVars>>
InitOffRun == IdleCall /\ IdleStore /\ IdleExec /\ IdleDb
\* the variables a call of a pure function leaves alone
offCall == <<runVars, cases, ex, dbVars>>
\* the variables the requests on one table leave alone (the call is recorded)
offEnv == <<runVars, cases, ex, nodes, otp, cache>>
offNodes == <<runVars, cases, ex, environments, otp, cache>>
offOtp == <<runVars, cases, ex, environments, nodes, cache>>
offCache == <<runVars, cases, ex, environments, nodes, otp>>
InitOffCall == IdleRun /\ IdleStore /\ IdleExec /\ IdleDb

(***************************************************************************)
(* Python values                                                           *)
(***************************************************************************)
JNull == <<"null", 0>>
JBool(b) == <<"bool", b>>
\* an int n
JNum(n) == <<"num", n>>
\* a float, given by twice its value: JFloat(2) is 1.0, JFloat(3) is 1.5
JFloat(h) == <<"float", h>>
JStr(s) == <<"str", s>>
JArr(q) == <<"arr", q>>
JObj(f) == <<"obj", f>>
Kind(x) == x[1]
Val(x) == x[2]

\* a raised exception, as the outcome of a call
Raised(name) == <<"raised", name>>
IsRaised(x) == Kind(x) = "raised"

\* validator.py:8 the sentinel of an unresolved path
MISSING == <<"MISSING", 0>>

\* isinstance(x, str), (x, int), (x, (int, float)), (x, list), (x, dict):
\* bool is a subclass of int
IsStr(x) == Kind(x) = "str"
IsInt(x) == Kind(x) \in {"num", "bool"}
IsNumber(x) == Kind(x) \in {"num", "float", "bool"}
IsList(x) == Kind(x) = "arr"
IsDict(x) == Kind(x) = "obj"
IsBool(x) == Kind(x) = "bool"

\* twice the numeric value of an int, float or bool (True is 1, False is 0)
Twice(x) ==
    CASE Kind(x) = "num" -> 2 * Val(x)
      [] Kind(x) = "float" -> Val(x)
      [] Kind(x) = "bool" -> IF Val(x) THEN 2 ELSE 0

\* truthiness, as `if x:` and `x or default` take it
Truthy(x) ==
    CASE Kind(x) = "null" -> FALSE
      [] Kind(x) = "MISSING" -> TRUE
      [] Kind(x) = "bool" -> Val(x)
      [] IsNumber(x) -> Twice(x) # 0
      [] Kind(x) = "str" -> Val(x) # <<>>
      [] Kind(x) = "arr" -> Val(x) # <<>>
      [] Kind(x) = "obj" -> DOMAIN Val(x) # {}

\* a == b of Python on JSON values: numbers by value (1 == 1.0 == True),
\* lists element by element, dicts key by key
RECURSIVE PyEq(_, _)
PyEq(a, b) ==
    CASE IsNumber(a) /\ IsNumber(b) -> Twice(a) = Twice(b)
      [] Kind(a) = "str" /\ Kind(b) = "str" -> Val(a) = Val(b)
      [] Kind(a) = "null" /\ Kind(b) = "null" -> TRUE
      [] IsList(a) /\ IsList(b) ->
           /\ Len(Val(a)) = Len(Val(b))
           /\ \A i \in 1..Len(Val(a)) : PyEq(Val(a)[i], Val(b)[i])
      [] IsDict(a) /\ IsDict(b) ->
           /\ DOMAIN Val(a) = DOMAIN Val(b)
           /\ \A k \in DOMAIN Val(a) : PyEq(Val(a)[k], Val(b)[k])
      [] OTHER -> FALSE

\* the str of one word, as the key of a dict or a value
K(word) == <<word>>

\* d.get(key, default) on the payload of a dict
Get(d, key, default) == IF key \in DOMAIN d THEN d[key] ELSE default

\* `needle in text` for two strs: needle is a contiguous slice of text
IsSubstring(needle, text) ==
    \E i \in 0..(Len(text) - Len(needle)) :
        \A j \in 1..Len(needle) : text[i + j] = needle[j]

(***************************************************************************)
(* Bounds of the dispatcher model.                                         *)
(***************************************************************************)
MaxConc == 2
MaxCases == 3
MaxTargets == 3
MaxSameName == 2

Calls == 1..MaxTargets
Cases == 1..MaxCases

\* runner.py:134-149: the methods _run_case sends; any other raises ValueError
SupportedMethods == {"GET", "POST", "PUT", "DELETE", "PATCH", "HEAD", "OPTIONS"}
\* the methods a case may carry in this model: one supported, one not
Methods == {"GET", "TRACE"}

(***************************************************************************)
(* Execution dispatcher                                                    *)
(***************************************************************************)
\* the run_tests calls a run makes: one in direct mode, one per target otherwise
ActiveCalls == IF mode = "direct" THEN {1} ELSE Calls

CasesOf(k) == 1..ncases

NewCase == [st |-> "new", method |-> "GET", ok |-> FALSE]

InFlight == Cardinality({p \in Calls \X Cases : cs[p[1]][p[2]].st = "inflight"})

\* asyncio.gather(*tasks) without return_exceptions: the first exception of a
\* task is propagated to the awaiter at once, the other tasks keep running
GatherRaises(k) == \E c \in CasesOf(k) : cs[k][c].st = "raised"

GatherDone(k) == \A c \in CasesOf(k) : cs[k][c].st = "done"

\* the flat list of one run_tests call: one result per task, in task order
FlatOfCall(k) == [c \in CasesOf(k) |-> [call |-> k, case |-> c, ok |-> cs[k][c].ok]]

\* _exec_case keeps the results of the target's own file and case name; the
\* target's own case is case 1 of its call, the others are the same-named
\* cases of the other files of the service
ExecCaseFilter(k) == SelectSeq(FlatOfCall(k), LAMBDA r : r.case = 1)

RECURSIVE ConcatBatches(_)
ConcatBatches(k) ==
    IF k = 0 THEN <<>> ELSE ConcatBatches(k - 1) \o ExecCaseFilter(k)

InitRun ==
    /\ mode \in {"direct", "selective"}
    /\ conc \in 1..MaxConc
    /\ ncases \in 1..MaxCases
    /\ mode = "selective" => ncases <= MaxSameName
    /\ outerFree = conc
    /\ call = [k \in Calls |->
                 IF mode = "direct" /\ k = 1
                 THEN [st |-> "gathering", free |-> conc, client |-> TRUE]
                 ELSE [st |-> "idle", free |-> 0, client |-> FALSE]]
    /\ cs = [k \in Calls |-> [c \in Cases |->
                 IF mode = "direct" /\ k = 1 /\ c <= ncases
                 THEN [NewCase EXCEPT !.st = "waiting"] ELSE NewCase]]
    /\ top = [st |-> "running", flat |-> <<>>]
    /\ InitOffRun

\* run_one of _run_for_files: acquire the outer semaphore, then _exec_case
\* calls run_tests(service, case_name, concurrency=1), which opens its own
\* client and semaphore and creates one _run_case task per matched case
StartCall(k) ==
    /\ mode = "selective"
    /\ call[k].st = "idle"
    /\ outerFree > 0
    /\ outerFree' = outerFree - 1
    /\ call' = [call EXCEPT ![k] = [st |-> "gathering", free |-> 1, client |-> TRUE]]
    /\ cs' = [cs EXCEPT ![k] = [c \in Cases |->
                 IF c <= ncases THEN [NewCase EXCEPT !.st = "waiting"] ELSE NewCase]]
    /\ UNCHANGED <<mode, conc, ncases, top, offRun>>

\* _run_case up to the await of the request: acquire the semaphore, pick the
\* method; an unsupported method raises ValueError, a closed client raises
\* RuntimeError, both leave the `async with sem` block and release the permit
CaseStart(k, c) ==
    /\ call[k].st # "idle"
    /\ cs[k][c].st = "waiting"
    /\ call[k].free > 0
    /\ \E m \in Methods :
         IF m \notin SupportedMethods \/ ~call[k].client
         THEN /\ cs' = [cs EXCEPT ![k][c] = [st |-> "raised", method |-> m, ok |-> FALSE]]
              /\ call' = call
         ELSE /\ cs' = [cs EXCEPT ![k][c] = [st |-> "inflight", method |-> m, ok |-> FALSE]]
              /\ call' = [call EXCEPT ![k].free = @ - 1]
    /\ UNCHANGED <<mode, conc, ncases, outerFree, top, offRun>>

\* the response arrives: evaluate_expect gives ok, the result dict is returned
CaseResponse(k, c) ==
    /\ cs[k][c].st = "inflight"
    /\ \E ok \in BOOLEAN : cs' = [cs EXCEPT ![k][c].st = "done", ![k][c].ok = ok]
    /\ call' = [call EXCEPT ![k].free = @ + 1]
    /\ UNCHANGED <<mode, conc, ncases, outerFree, top, offRun>>

\* the request raises a transport error (connection refused, timeout):
\* nothing in _run_case catches it, the task ends with the exception
CaseTransportError(k, c) ==
    /\ cs[k][c].st = "inflight"
    /\ cs' = [cs EXCEPT ![k][c].st = "raised"]
    /\ call' = [call EXCEPT ![k].free = @ + 1]
    /\ UNCHANGED <<mode, conc, ncases, outerFree, top, offRun>>

ReleaseOuter == IF mode = "selective" THEN outerFree + 1 ELSE outerFree

\* every task returned: gather returns, the client is closed, run_tests returns
GatherReturn(k) ==
    /\ call[k].st = "gathering"
    /\ GatherDone(k)
    /\ call' = [call EXCEPT ![k].st = "returned", ![k].client = FALSE]
    /\ outerFree' = ReleaseOuter
    /\ UNCHANGED <<mode, conc, ncases, cs, top, offRun>>

\* a task raised: gather raises in run_tests, the client is closed on the way
\* out, and run_one leaves its `async with sem` block
GatherRaise(k) ==
    /\ call[k].st = "gathering"
    /\ GatherRaises(k)
    /\ call' = [call EXCEPT ![k].st = "raised", ![k].client = FALSE]
    /\ outerFree' = ReleaseOuter
    /\ UNCHANGED <<mode, conc, ncases, cs, top, offRun>>

\* the run returns its flat list: run_tests' own in direct mode, the
\* concatenated batches of _run_for_files otherwise
TopReturn ==
    /\ top.st = "running"
    /\ \A k \in ActiveCalls : call[k].st = "returned"
    /\ top' = [st |-> "returned",
               flat |-> IF mode = "direct" THEN FlatOfCall(1)
                        ELSE ConcatBatches(MaxTargets)]
    /\ UNCHANGED <<mode, conc, ncases, outerFree, call, cs, offRun>>

\* the exception of a run_tests call reaches the caller of the run
TopRaise ==
    /\ top.st = "running"
    /\ \E k \in ActiveCalls : call[k].st = "raised"
    /\ top' = [st |-> "raised", flat |-> <<>>]
    /\ UNCHANGED <<mode, conc, ncases, outerFree, call, cs, offRun>>

NextRun ==
    \/ \E k \in Calls : StartCall(k)
    \/ \E k \in Calls, c \in Cases : CaseStart(k, c)
    \/ \E k \in Calls, c \in Cases : CaseResponse(k, c)
    \/ \E k \in Calls, c \in Cases : CaseTransportError(k, c)
    \/ \E k \in Calls : GatherReturn(k)
    \/ \E k \in Calls : GatherRaise(k)
    \/ TopReturn
    \/ TopRaise

SpecRun == InitRun /\ [][NextRun]_vars

Spec == SpecRun

(***************************************************************************)
(* validator.py: path resolution and the predicates of a check             *)
(***************************************************************************)
Digits == <<"0", "1", "2", "3", "4", "5", "6", "7", "8", "9">>
IsDigit(c) == \E i \in 1..Len(Digits) : Digits[i] = c
DigitVal(c) == (CHOOSE i \in 1..Len(Digits) : Digits[i] = c) - 1

\* the value of a non-empty run of digits
RECURSIVE DigitsVal(_)
DigitsVal(ds) ==
    IF ds = <<>> THEN 0
    ELSE 10 * DigitsVal(SubSeq(ds, 1, Len(ds) - 1)) + DigitVal(ds[Len(ds)])

\* int(text): digits with an optional sign; ValueError on anything else
ParseInt(text) ==
    LET signed == text # <<>> /\ Head(text) \in {"-", "+"}
        ds == IF signed THEN Tail(text) ELSE text
    IN  IF ds = <<>> \/ \E i \in 1..Len(ds) : ~IsDigit(ds[i])
        THEN Raised("ValueError")
        ELSE JNum(IF signed /\ Head(text) = "-" THEN 0 - DigitsVal(ds) ELSE DigitsVal(ds))

\* the number of digits a str starts with
RECURSIVE DigitRun(_)
DigitRun(text) ==
    IF text # <<>> /\ IsDigit(Head(text)) THEN 1 + DigitRun(Tail(text)) ELSE 0

\* re.sub(r"\[(\d+)\]", r".#\1", path)
RECURSIVE SubBrackets(_)
SubBrackets(path) ==
    IF path = <<>> THEN <<>>
    ELSE LET n == DigitRun(Tail(path))
         IN  IF Head(path) = "[" /\ n >= 1 /\ Len(path) >= n + 2 /\ path[n + 2] = "]"
             THEN <<".", "#">> \o SubSeq(path, 2, n + 1)
                      \o SubBrackets(SubSeq(path, n + 3, Len(path)))
             ELSE <<Head(path)>> \o SubBrackets(Tail(path))

\* path.split("."): the pieces between the dots, empty ones included
RECURSIVE SplitDots(_)
SplitDots(path) ==
    IF path = <<>> THEN << <<>> >>
    ELSE LET rest == SplitDots(Tail(path))
         IN  IF Head(path) = "." THEN << <<>> >> \o rest
             ELSE << <<Head(path)>> \o Head(rest) >> \o Tail(rest)

\* path.lstrip(".")
RECURSIVE LStripDots(_)
LStripDots(path) ==
    IF path # <<>> /\ Head(path) = "." THEN LStripDots(Tail(path)) ELSE path

\* validator.py:49-63 the walk over the parts of the path
RECURSIVE WalkParts(_, _)
RECURSIVE IndexInto(_, _, _)
\* validator.py:53-59 cur[idx] for a list, idx the outcome of int(p[1:])
IndexInto(idx, cur, parts) ==
    IF IsRaised(idx) THEN idx
    ELSE IF Val(idx) < 0 \/ Val(idx) >= Len(Val(cur)) THEN MISSING
    ELSE WalkParts(Val(cur)[Val(idx) + 1], Tail(parts))

WalkParts(cur, parts) ==
    IF parts = <<>> THEN cur
    ELSE IF Head(Head(parts)) = "#"
    THEN IF ~IsList(cur) THEN MISSING
         ELSE IndexInto(ParseInt(Tail(Head(parts))), cur, parts)
    ELSE IF IsDict(cur) /\ Head(parts) \in DOMAIN Val(cur)
    THEN WalkParts(Val(cur)[Head(parts)], Tail(parts))
    ELSE MISSING

\* validator.py:39-43 the path without a leading "$" or "$."
StripRoot(path) ==
    IF Head(path) = "$"
    THEN IF Tail(path) # <<>> /\ Head(Tail(path)) = "."
         THEN Tail(Tail(path)) ELSE Tail(path)
    ELSE path

\* validator.py:44-63 the walk along a path whose root and leading dots are gone
ResolveStripped(obj, p) ==
    IF p = <<>> THEN obj
    ELSE WalkParts(obj, SelectSeq(SplitDots(SubBrackets(p)), LAMBDA part : part # <<>>))

\* validator.py:27-63; the result is a JSON value, MISSING, or a raised ValueError
_resolve_path(obj, path) ==
    IF path = <<>> THEN obj ELSE ResolveStripped(obj, LStripDots(StripRoot(path)))

Min(S) == CHOOSE m \in S : \A n \in S : m <= n

\* validator.py:65-86 dict subset / list multi-subset / equality otherwise;
\* for lists each expected element takes the first unused actual element
\* that matches it
RECURSIVE _subset(_, _)
RECURSIVE SubsetList(_, _, _)
SubsetList(es, as, used) ==
    IF es = <<>> THEN TRUE
    ELSE LET free == {i \in 1..Len(as) : i \notin used /\ _subset(Head(es), as[i])}
         IN  IF free = {} THEN FALSE
             ELSE SubsetList(Tail(es), as, used \cup {Min(free)})

_subset(expected, actual) ==
    IF IsDict(expected) /\ IsDict(actual)
    THEN \A k \in DOMAIN Val(expected) :
             k \in DOMAIN Val(actual) /\ _subset(Val(expected)[k], Val(actual)[k])
    ELSE IF IsList(expected) /\ IsList(actual)
    THEN SubsetList(Val(expected), Val(actual), {})
    ELSE PyEq(expected, actual)

\* validator.py:88-93
_contains(actual, expected) ==
    IF IsStr(actual) /\ IsStr(expected) THEN IsSubstring(Val(expected), Val(actual))
    ELSE IF IsDict(actual) \/ IsList(actual) THEN _subset(expected, actual)
    ELSE FALSE

\* validator.py:11-18 the Python types of a logical JSON type
TypeNames == {"string", "number", "boolean", "object", "array", "null"}
IsInstanceOfKind(actual, k) ==
    CASE k = <<"string">> -> IsStr(actual)
      [] k = <<"number">> -> IsNumber(actual)
      [] k = <<"boolean">> -> IsBool(actual)
      [] k = <<"object">> -> IsDict(actual)
      [] k = <<"array">> -> IsList(actual)
      [] k = <<"null">> -> Kind(actual) = "null"
      [] OTHER -> FALSE

\* validator.py:95-98; the kinds are strs (the validator has seen to it)
_type_ok(actual, kinds) ==
    LET ks == IF IsList(kinds) THEN Val(kinds) ELSE <<kinds>>
    IN  \E i \in 1..Len(ks) : IsStr(ks[i]) /\ IsInstanceOfKind(actual, Val(ks[i]))

\* re.compile on the patterns of this model: words are literals, "^" anchors
\* at the start, and "(" opens a group that nothing closes (re.error)
RegexCompiles(pat) == \A i \in 1..Len(pat) : pat[i] # "("

\* re.search(pat, text) is not None, for a pattern that compiles
RegexSearch(pat, text) ==
    IF pat # <<>> /\ Head(pat) = "^"
    THEN /\ Len(Tail(pat)) <= Len(text)
         /\ SubSeq(text, 1, Len(Tail(pat))) = Tail(pat)
    ELSE IsSubstring(pat, text)

\* a failure string, kept as its kind and the path or key it names
Fail(kind, where) == <<kind, where>>
\* the outcome of a call that returned
Ok(v) == <<"ok", v>>

\* len(val): str, list and dict have one
HasLen(val) == Kind(val) \in {"str", "arr", "obj"}
PyLen(val) == IF IsDict(val) THEN Cardinality(DOMAIN Val(val)) ELSE Len(Val(val))

\* validator.py:150-160 gt / gte / lt / lte
NumericFailures(val, chk, path) ==
    LET one(op) ==
            IF K(op) \notin DOMAIN chk THEN <<>>
            ELSE IF ~IsNumber(val) THEN <<Fail(op, path)>>
            ELSE LET v == Twice(val)
                     ref == Twice(chk[K(op)])
                 IN  IF \/ op = "gt" /\ ~(v > ref)
                        \/ op = "gte" /\ ~(v >= ref)
                        \/ op = "lt" /\ ~(v < ref)
                        \/ op = "lte" /\ ~(v <= ref)
                     THEN <<Fail(op, path)>> ELSE <<>>
    IN  one("gt") \o one("gte") \o one("lt") \o one("lte")

\* validator.py:118-160 the predicates after present / absent
PredicateFailures(val, chk, path) ==
    (IF K("equals") \in DOMAIN chk /\ (val = MISSING \/ ~PyEq(val, chk[K("equals")]))
     THEN <<Fail("equals", path)>> ELSE <<>>)
    \o (IF K("type") \in DOMAIN chk /\ (val = MISSING \/ ~_type_ok(val, chk[K("type")]))
        THEN <<Fail("type", path)>> ELSE <<>>)
    \o (IF K("regex") \in DOMAIN chk
           /\ (~IsStr(val) \/ ~RegexSearch(Val(chk[K("regex")]), Val(val)))
        THEN <<Fail("regex", path)>> ELSE <<>>)
    \o (IF K("contains") \in DOMAIN chk /\ ~_contains(val, chk[K("contains")])
        THEN <<Fail("contains", path)>> ELSE <<>>)
    \o (IF K("length") \in DOMAIN chk
           /\ (~HasLen(val) \/ ~PyEq(JNum(PyLen(val)), chk[K("length")]))
        THEN <<Fail("length", path)>> ELSE <<>>)
    \o NumericFailures(val, chk, path)

\* two outcomes in sequence: the first exception, or the failures of both
Then(a, b) ==
    IF IsRaised(a) THEN a
    ELSE IF IsRaised(b) THEN b
    ELSE Ok(Val(a) \o Val(b))

\* the check as it would be if a null counted as absent and `present` let
\* the other predicates run
CheckValueNullIsAbsent(val, chk, path) ==
    IF IsRaised(val) THEN val
    ELSE IF Truthy(Get(chk, K("absent"), JNull))
    THEN Ok(IF val # MISSING /\ val # JNull THEN <<Fail("absent", path)>> ELSE <<>>)
    ELSE Ok((IF Truthy(Get(chk, K("present"), JNull)) /\ val = MISSING
             THEN <<Fail("present", path)>> ELSE <<>>)
            \o PredicateFailures(val, chk, path))

\* validator.py:107-160 the check on the value its path resolved to
CheckValue(val, chk, path) ==
    IF IsRaised(val) THEN val
    ELSE IF Truthy(Get(chk, K("absent"), JNull))
    THEN Ok(IF val # MISSING THEN <<Fail("absent", path)>> ELSE <<>>)
    ELSE IF Truthy(Get(chk, K("present"), JNull))
    THEN Ok(IF val = MISSING THEN <<Fail("present", path)>> ELSE <<>>)
    ELSE Ok(PredicateFailures(val, chk, path))

\* validator.py:100-160; chk is the payload of the check's dict. The outcome
\* is Ok(the failures appended) or the exception _resolve_path raised
_apply_check(body_json, chk) ==
    IF ~Truthy(Get(chk, K("path"), JNull)) \/ ~IsStr(Get(chk, K("path"), JNull))
    THEN Ok(<<Fail("path", <<>>)>>)
    ELSE CheckValue(_resolve_path(body_json, Val(chk[K("path")])), chk, Val(chk[K("path")]))

\* a list of checks applied in order to one failure list: Ok(all the
\* failures) or the first exception
RECURSIVE ApplyChecks(_, _)
ApplyChecks(body_json, checks) ==
    IF checks = <<>> THEN Ok(<<>>)
    ELSE Then(_apply_check(body_json, Val(Head(checks))),
              ApplyChecks(body_json, Tail(checks)))

(***************************************************************************)
(* validator.py: evaluate_expect.  A response is a record: status_code (an *)
(* int), text (a str), json (the value resp.json() returns, or NotJson     *)
(* when it raises) and headers (a function from names to strs).  expect is *)
(* the payload of a dict of the shape validate_expected_spec accepts.      *)
(***************************************************************************)
NotJson == <<"notjson", 0>>

\* str.lower() on the symbols of this model
LowerSym(c) ==
    CASE c = "A" -> "a"
      [] c = "B" -> "b"
      [] c = "X-Id" -> "x-id"
      [] c = "Content-Type" -> "content-type"
      [] OTHER -> c
Lower(text) == [i \in 1..Len(text) |-> LowerSym(text[i])]

\* the items of a dict in its iteration order; the model keeps no insertion
\* order and takes one fixed order of the keys
RECURSIVE KeysInOrder(_)
KeysInOrder(S) ==
    IF S = {} THEN <<>>
    ELSE LET k == CHOOSE x \in S : TRUE IN <<k>> \o KeysInOrder(S \ {k})

\* validator.py:24-25
_to_lower_headers(headers) ==
    [lk \in {Lower(k) : k \in DOMAIN headers} |->
        headers[CHOOSE k \in DOMAIN headers : Lower(k) = lk]]

\* x in allowed, for a list
InList(x, list) == \E i \in 1..Len(list) : PyEq(list[i], x)

\* validator.py:343-350
StatusFailures(resp, expect) ==
    IF K("status_in") \in DOMAIN expect
    THEN IF ~InList(JNum(resp.status_code), Val(expect[K("status_in")]))
         THEN <<Fail("status_in", <<>>)>> ELSE <<>>
    ELSE IF K("status") \in DOMAIN expect
              /\ ~PyEq(JNum(resp.status_code), expect[K("status")])
    THEN <<Fail("status", <<>>)>> ELSE <<>>

\* tc if isinstance(tc, list) else [tc]
AsList(x) == IF IsList(x) THEN Val(x) ELSE <<x>>

RECURSIVE NeedleFailures(_, _)
NeedleFailures(needles, text) ==
    IF needles = <<>> THEN <<>>
    ELSE (IF ~IsSubstring(Val(Head(needles)), text)
          THEN <<Fail("text_contains", Val(Head(needles)))>> ELSE <<>>)
         \o NeedleFailures(Tail(needles), text)

\* validator.py:352-368
TextFailures(resp, expect) ==
    (IF K("text_contains") \in DOMAIN expect
     THEN NeedleFailures(AsList(expect[K("text_contains")]), resp.text) ELSE <<>>)
    \o (IF K("text_contains_any") \in DOMAIN expect
           /\ LET options == AsList(expect[K("text_contains_any")])
              IN  ~\E i \in 1..Len(options) : IsSubstring(Val(options[i]), resp.text)
        THEN <<Fail("text_contains_any", <<>>)>> ELSE <<>>)
    \o (IF K("text_regex") \in DOMAIN expect
           /\ ~RegexSearch(Val(expect[K("text_regex")]), resp.text)
        THEN <<Fail("text_regex", <<>>)>> ELSE <<>>)

\* the dict under key, or {} when the key is absent or its value falsy
DictOrEmpty(expect, key) ==
    IF key \in DOMAIN expect /\ Truthy(expect[key]) THEN Val(expect[key]) ELSE <<>>

RECURSIVE HeaderFailuresOf(_, _, _)
HeaderFailuresOf(keys, want, actual) ==
    IF keys = <<>> THEN <<>>
    ELSE LET hk == Head(keys)
             ak == Lower(hk)
         IN  (IF ak \notin DOMAIN actual THEN <<Fail("header missing", hk)>>
              ELSE IF actual[ak] # Val(want[hk]) THEN <<Fail("header", hk)>>
              ELSE <<>>)
             \o HeaderFailuresOf(Tail(keys), want, actual)

RECURSIVE HeaderRegexFailuresOf(_, _, _)
HeaderRegexFailuresOf(keys, want, actual) ==
    IF keys = <<>> THEN <<>>
    ELSE LET hk == Head(keys)
             ak == Lower(hk)
         IN  (IF ak \notin DOMAIN actual \/ ~RegexSearch(Val(want[hk]), actual[ak])
              THEN <<Fail("header_regex", hk)>> ELSE <<>>)
             \o HeaderRegexFailuresOf(Tail(keys), want, actual)

\* validator.py:370-390
HeaderFailures(resp, expect) ==
    LET want == DictOrEmpty(expect, K("headers"))
        want_re == DictOrEmpty(expect, K("headers_regex"))
        actual == _to_lower_headers(resp.headers)
    IN  HeaderFailuresOf(KeysInOrder(DOMAIN want), want, actual)
        \o HeaderRegexFailuresOf(KeysInOrder(DOMAIN want_re), want_re, actual)

\* the list under key, or [] when the key is absent or its value falsy
ListOrEmpty(d, key) ==
    IF key \in DOMAIN d /\ Truthy(d[key]) THEN Val(d[key]) ELSE <<>>

\* validator.py:404-417 the branches in order: the first branch without a
\* local failure ends the loop; when none passes, one failure carries the
\* reasons of every branch
RECURSIVE EitherOutcome(_, _, _)
RECURSIVE EitherBranch(_, _, _, _)
\* validator.py:408-415 one branch, local the outcome of its checks
EitherBranch(local, body_json, branches, reasons) ==
    IF IsRaised(local) THEN local
    ELSE IF Val(local) = <<>> THEN Ok(<<>>)
    ELSE EitherOutcome(body_json, Tail(branches), Append(reasons, Val(local)))

EitherOutcome(body_json, branches, reasons) ==
    IF branches = <<>> THEN Ok(<<Fail("json.either", reasons)>>)
    ELSE EitherBranch(ApplyChecks(body_json, ListOrEmpty(Val(Head(branches)), K("checks"))),
                      body_json, branches, reasons)

\* validator.py:400-417 the checks, then the either block, on a parsed body
JsonBlockFailures(body_json, jexp) ==
    Then(ApplyChecks(body_json, ListOrEmpty(jexp, K("checks"))),
         IF ListOrEmpty(jexp, K("either")) = <<>> THEN Ok(<<>>)
         ELSE EitherOutcome(body_json, ListOrEmpty(jexp, K("either")), <<>>))

\* validator.py:392-417 the json block: Ok(the failures it adds) or an exception
JsonFailures(resp, expect) ==
    IF K("json") \notin DOMAIN expect THEN Ok(<<>>)
    ELSE IF resp.json = NotJson THEN Ok(<<Fail("json", <<>>)>>)
    ELSE IF resp.json = JNull THEN Ok(<<>>)
    ELSE JsonBlockFailures(resp.json, DictOrEmpty(expect, K("json")))

\* validator.py:393-398 body_json after the json block: None unless the spec
\* has a json block and the body parsed
BodyJson(resp, expect) ==
    IF K("json") \in DOMAIN expect /\ resp.json # NotJson THEN resp.json ELSE JNull

AssertsResponseCode(checks) ==
    \E i \in 1..Len(checks) :
        /\ Get(Val(checks[i]), K("path"), JNull) = JStr(K("response_code"))
        /\ K("equals") \in DOMAIN Val(checks[i])

\* validator.py:440-449
_has_response_code_assert(expect) ==
    LET jexp == DictOrEmpty(expect, K("json"))
        branches == ListOrEmpty(jexp, K("either"))
    IN  \/ AssertsResponseCode(ListOrEmpty(jexp, K("checks")))
        \/ \E b \in 1..Len(branches) :
               AssertsResponseCode(ListOrEmpty(Val(branches[b]), K("checks")))

\* validator.py:419-428
MirrorFailures(resp, expect) ==
    LET body_json == BodyJson(resp, expect)
    IN  IF /\ Truthy(Get(expect, K("_mirror_http_status"), JBool(TRUE)))
           /\ body_json # JNull
           /\ IsDict(body_json)
           /\ K("response_code") \in DOMAIN Val(body_json)
           /\ ~_has_response_code_assert(expect)
           /\ ~PyEq(Val(body_json)[K("response_code")], JNum(resp.status_code))
        THEN <<Fail("json.response_code", <<>>)>> ELSE <<>>

\* the safeguard as it would be without its flag and with only a json
\* block counted as content
RequireContentAlways(resp, expect) ==
    IF /\ 400 <= resp.status_code /\ resp.status_code <= 599
       /\ K("json") \notin DOMAIN expect
    THEN <<Fail("error response without content assertion", <<>>)>> ELSE <<>>

\* validator.py:430-436
RequireContentFailures(resp, expect) ==
    IF /\ Truthy(Get(expect, K("_require_content_for_error"), JBool(TRUE)))
       /\ 400 <= resp.status_code /\ resp.status_code <= 599
       /\ DOMAIN expect \cap {K("text_contains"), K("text_contains_any"),
                              K("text_regex"), K("json")} = {}
    THEN <<Fail("error response without content assertion", <<>>)>> ELSE <<>>

\* validator.py:438 the pair returned
Verdict(failures) == Ok(<<failures = <<>>, failures>>)

\* validator.py:343-438 around the json block, json the outcome of that block
EvaluateAround(json, resp, expect) ==
    IF IsRaised(json) THEN json
    ELSE Verdict(StatusFailures(resp, expect) \o TextFailures(resp, expect)
                     \o HeaderFailures(resp, expect) \o Val(json)
                     \o MirrorFailures(resp, expect)
                     \o RequireContentFailures(resp, expect))

\* validator.py:324-438: Ok(<<ok, failures>>) or the exception raised
evaluate_expect(resp, expect) ==
    EvaluateAround(JsonFailures(resp, expect), resp, expect)

(***************************************************************************)
(* validator.py: validate_expected_spec.  Its argument is any JSON value;  *)
(* the outcome is Ok(<<ok, errs>>) or the exception raised.                *)
(***************************************************************************)
\* the value of an int (a bool is 1 or 0)
IntVal(x) == Twice(x) \div 2

ValidHttpCode(x) == 100 <= IntVal(x) /\ IntVal(x) <= 599

\* isinstance(x, str) or (isinstance(x, list) and all(isinstance(s, str) for s in x))
IsStrOrListOfStr(x) ==
    \/ IsStr(x)
    \/ IsList(x) /\ \A i \in 1..Len(Val(x)) : IsStr(Val(x)[i])

\* hash(x) raises TypeError for a list and for a dict
Hashable(x) == ~IsList(x) /\ ~IsDict(x)

Predicates == {"equals", "present", "absent", "regex", "contains", "length",
               "type", "gt", "gte", "lt", "lte"}

\* validator.py:304-315 the `type` of a check: testing a list or dict entry
\* against the set of allowed names raises TypeError
TypeErrors(t) ==
    IF IsStr(t)
    THEN Ok(IF Val(t) \notin {K(n) : n \in TypeNames} THEN <<Fail("type", <<>>)>> ELSE <<>>)
    ELSE IF IsList(t)
    THEN IF \E i \in 1..Len(Val(t)) : ~Hashable(Val(t)[i]) THEN Raised("TypeError")
         ELSE Ok(IF \E i \in 1..Len(Val(t)) :
                        ~IsStr(Val(t)[i]) \/ Val(Val(t)[i]) \notin {K(n) : n \in TypeNames}
                 THEN <<Fail("type", <<>>)>> ELSE <<>>)
    ELSE Ok(<<Fail("type", <<>>)>>)

\* validator.py:316-318
NumberErrors(c) ==
    LET one(op) == IF K(op) \in DOMAIN c /\ ~IsNumber(c[K(op)])
                   THEN <<Fail(op, <<>>)>> ELSE <<>>
    IN  one("gt") \o one("gte") \o one("lt") \o one("lte")

\* validator.py:282-318
_validate_one_check(chk) ==
    IF ~IsDict(chk) THEN Ok(<<Fail("check", <<>>)>>)
    ELSE LET c == Val(chk)
         IN  Then(Ok((IF \/ K("path") \notin DOMAIN c
                         \/ ~IsStr(c[K("path")])
                         \/ ~Truthy(c[K("path")])
                      THEN <<Fail("path", <<>>)>> ELSE <<>>)
                     \o (IF \A q \in Predicates : K(q) \notin DOMAIN c
                         THEN <<Fail("predicate", <<>>)>> ELSE <<>>)
                     \o (IF K("length") \in DOMAIN c
                            /\ ~(IsInt(c[K("length")]) /\ IntVal(c[K("length")]) >= 0)
                         THEN <<Fail("length", <<>>)>> ELSE <<>>)
                     \o (IF K("regex") \in DOMAIN c
                            /\ (~IsStr(c[K("regex")]) \/ ~RegexCompiles(Val(c[K("regex")])))
                         THEN <<Fail("regex", <<>>)>> ELSE <<>>)),
             Then(IF K("type") \in DOMAIN c THEN TypeErrors(c[K("type")]) ELSE Ok(<<>>),
                  Ok(NumberErrors(c))))

RECURSIVE ValidateChecks(_)
ValidateChecks(checks) ==
    IF checks = <<>> THEN Ok(<<>>)
    ELSE Then(_validate_one_check(Head(checks)), ValidateChecks(Tail(checks)))

\* validator.py:187-205
StatusErrors(e) ==
    (IF K("status") \in DOMAIN e /\ K("status_in") \in DOMAIN e
     THEN <<Fail("status and status_in", <<>>)>> ELSE <<>>)
    \o (IF K("status") \in DOMAIN e
           /\ (~IsInt(e[K("status")]) \/ ~ValidHttpCode(e[K("status")]))
        THEN <<Fail("status", <<>>)>> ELSE <<>>)
    \o (IF K("status_in") \in DOMAIN e
        THEN LET si == e[K("status_in")]
             IN  IF ~(IsList(si) /\ Val(si) # <<>>
                      /\ \A i \in 1..Len(Val(si)) : IsInt(Val(si)[i]))
                 THEN <<Fail("status_in", <<>>)>>
                 ELSE IF \E i \in 1..Len(Val(si)) : ~ValidHttpCode(Val(si)[i])
                 THEN <<Fail("status_in codes", <<>>)>> ELSE <<>>
        ELSE <<>>)

\* validator.py:207-228
TextErrors(e) ==
    (IF K("text_contains") \in DOMAIN e /\ ~IsStrOrListOfStr(e[K("text_contains")])
     THEN <<Fail("text_contains", <<>>)>> ELSE <<>>)
    \o (IF K("text_contains_any") \in DOMAIN e /\ ~IsStrOrListOfStr(e[K("text_contains_any")])
        THEN <<Fail("text_contains_any", <<>>)>> ELSE <<>>)
    \o (IF K("text_regex") \in DOMAIN e
           /\ (~IsStr(e[K("text_regex")]) \/ ~RegexCompiles(Val(e[K("text_regex")])))
        THEN <<Fail("text_regex", <<>>)>> ELSE <<>>)

\* validator.py:236-241 re.compile on every pattern of headers_regex:
\* a pattern that is no str raises TypeError, which nothing catches
RECURSIVE CompileErrors(_, _)
CompileErrors(keys, hdrs) ==
    IF keys = <<>> THEN Ok(<<>>)
    ELSE LET pat == hdrs[Head(keys)]
         IN  IF ~IsStr(pat) THEN Raised("TypeError")
             ELSE Then(Ok(IF ~RegexCompiles(Val(pat))
                          THEN <<Fail("headers_regex pattern", Head(keys))>> ELSE <<>>),
                       CompileErrors(Tail(keys), hdrs))

\* validator.py:230-241
HeaderErrors(e) ==
    LET shape(key) ==
            IF key \in DOMAIN e
               /\ ~(IsDict(e[key]) /\ \A k \in DOMAIN Val(e[key]) : IsStr(Val(e[key])[k]))
            THEN <<Fail(key[1], <<>>)>> ELSE <<>>
    IN  Then(Ok(shape(K("headers")) \o shape(K("headers_regex"))),
             IF K("headers_regex") \in DOMAIN e /\ IsDict(e[K("headers_regex")])
             THEN CompileErrors(KeysInOrder(DOMAIN Val(e[K("headers_regex")])),
                                Val(e[K("headers_regex")]))
             ELSE Ok(<<>>))

\* validator.py:264-273
RECURSIVE BranchErrors(_)
BranchErrors(branches) ==
    IF branches = <<>> THEN Ok(<<>>)
    ELSE LET br == Head(branches)
             br_checks == IF IsDict(br) THEN Get(Val(br), K("checks"), JNull) ELSE JNull
         IN  Then(IF ~IsDict(br) THEN Ok(<<Fail("either branch", <<>>)>>)
                  ELSE IF ~IsList(br_checks) \/ Val(br_checks) = <<>>
                  THEN Ok(<<Fail("either checks", <<>>)>>)
                  ELSE ValidateChecks(Val(br_checks)),
                  BranchErrors(Tail(branches)))

\* validator.py:243-273
JsonErrors(e) ==
    IF K("json") \notin DOMAIN e THEN Ok(<<>>)
    ELSE IF ~IsDict(e[K("json")]) THEN Ok(<<Fail("json", <<>>)>>)
    ELSE LET j == Val(e[K("json")])
         IN  Then(IF K("checks") \notin DOMAIN j THEN Ok(<<>>)
                  ELSE IF ~IsList(j[K("checks")]) THEN Ok(<<Fail("checks", <<>>)>>)
                  ELSE ValidateChecks(Val(j[K("checks")])),
                  IF K("either") \notin DOMAIN j THEN Ok(<<>>)
                  ELSE IF ~IsList(j[K("either")]) \/ Val(j[K("either")]) = <<>>
                  THEN Ok(<<Fail("either", <<>>)>>)
                  ELSE BranchErrors(Val(j[K("either")])))

\* validator.py:275-278
FlagErrors(e) ==
    LET one(f) == IF K(f) \in DOMAIN e /\ ~IsBool(e[K(f)])
                  THEN <<Fail(f, <<>>)>> ELSE <<>>
    IN  one("_mirror_http_status") \o one("_require_content_for_error")

\* validator.py:166-280
validate_expected_spec(expect) ==
    IF ~IsDict(expect) THEN Ok(<<FALSE, <<Fail("expected", <<>>)>>>>)
    ELSE LET e == Val(expect)
             errs == Then(Ok(StatusErrors(e) \o TextErrors(e)),
                     Then(HeaderErrors(e),
                     Then(JsonErrors(e), Ok(FlagErrors(e)))))
         IN  IF IsRaised(errs) THEN errs
             ELSE Ok(<<Val(errs) = <<>>, Val(errs)>>)

(***************************************************************************)
(* Calls of _contains: two arrays are drawn, the check is applied to them  *)
(* and then to a permutation of them.                                      *)
(***************************************************************************)
\* the elements of the arrays: scalars, two objects of which one is a subset
\* of the other, and an array
Elems ==
    {JNum(1), JNum(2),
     JObj(K("a") :> JNum(1)),
     JObj(K("a") :> JNum(1) @@ K("b") :> JNum(2)),
     JArr(<<JNum(1)>>)}

MaxLen == 2

Arrays == UNION {[1..n -> Elems] : n \in 0..MaxLen}

\* the rearrangements of a sequence
Rearranged(q) ==
    {[i \in 1..Len(q) |-> q[f[i]]] :
        f \in {g \in [1..Len(q) -> 1..Len(q)] : \A i, j \in 1..Len(q) : g[i] = g[j] => i = j}}

InitContains ==
    /\ fn = "none"
    /\ arg \in [actual : Arrays, expected : Arrays]
    /\ ret = <<>>
    /\ InitOffCall

\* _apply_check's `contains` on the two arrays
CallContains ==
    /\ fn = "none"
    /\ fn' = "_contains"
    /\ ret' = <<_contains(JArr(arg.actual), JArr(arg.expected))>>
    /\ UNCHANGED <<arg, offCall>>

\* the same check, the elements of both arrays rearranged
CallContainsPermuted ==
    /\ fn = "_contains"
    /\ \E a \in Rearranged(arg.actual), e \in Rearranged(arg.expected) :
         /\ arg' = [actual |-> a, expected |-> e]
         /\ ret' = Append(ret, _contains(JArr(a), JArr(e)))
    /\ fn' = "_contains permuted"
    /\ UNCHANGED offCall

NextContains == CallContains \/ CallContainsPermuted

SpecContains == InitContains /\ [][NextContains]_vars

(***************************************************************************)
(* Calls of evaluate_expect: a response and an expectation spec of the     *)
(* authoring grammar are drawn and the evaluator is applied to them.       *)
(***************************************************************************)
\* a dict given by its items; an absent item is left out
Item(key, v) == IF v = MISSING THEN <<>> ELSE K(key) :> v
Check(path, pred, v) == JObj(K("path") :> JStr(path) @@ K(pred) :> v)
Branch(checks) == JObj(K("checks") :> JArr(checks))

\* the checks of the drawn specs: on response_code, on a field the bodies
\* may lack, and one that passes on every body
EvalChecks ==
    {Check(K("response_code"), "equals", JNum(201)),
     Check(K("response_code"), "present", JBool(TRUE)),
     Check(<<"a">>, "equals", JNum(1)),
     Check(<<"a">>, "absent", JBool(TRUE))}

\* the json blocks of the drawn specs: none, empty, checks, either, both
EvalJsonBlocks ==
    {MISSING, JObj(<<>>)}
    \cup {JObj(K("checks") :> JArr(<<c>>)) : c \in EvalChecks}
    \cup {JObj(K("either") :> JArr(<<Branch(<<c>>), Branch(<<d>>)>>)) :
            c \in EvalChecks, d \in EvalChecks}
    \cup {JObj(K("checks") :> JArr(<<c>>) @@ K("either") :> JArr(<<Branch(<<d>>)>>)) :
            c \in EvalChecks, d \in EvalChecks}

EvalExpects ==
    {Item("status", s) @@ Item("json", j) @@ Item("_mirror_http_status", m) :
        s \in {MISSING, JNum(200)},
        j \in EvalJsonBlocks,
        m \in {MISSING, JBool(TRUE), JBool(FALSE)}}

\* the bodies of the drawn responses: not JSON, null, a scalar, and objects
\* with and without a response_code
EvalBodies ==
    {NotJson, JNull, JNum(5),
     JObj(K("a") :> JNum(1)),
     JObj(K("response_code") :> JNum(200)),
     JObj(K("response_code") :> JNum(201) @@ K("a") :> JNum(1)),
     JObj(K("response_code") :> JStr(<<"2", "0", "0">>))}

EvalResponses ==
    {[status_code |-> s, text |-> <<"o", "k">>, json |-> b, headers |-> <<>>] :
        s \in {200, 201, 404}, b \in EvalBodies}

InitEval ==
    /\ fn = "none"
    /\ arg \in [resp : EvalResponses, expect : EvalExpects]
    /\ ret = <<>>
    /\ InitOffCall

CallEvaluate ==
    /\ fn = "none"
    /\ fn' = "evaluate_expect"
    /\ ret' = evaluate_expect(arg.resp, arg.expect)
    /\ UNCHANGED <<arg, offCall>>

NextEval == CallEvaluate

SpecEval == InitEval /\ [][NextEval]_vars

(***************************************************************************)
(* Calls of validate_expected_spec: a document is drawn, well-formed or    *)
(* not, and the validator is applied to it.                                *)
(***************************************************************************)
\* values of the wrong type for a field of the grammar
Misfits == {JNull, JNum(5), JStr(<<"a">>), JArr(<<JNum(5)>>), JObj(K("a") :> JNum(5))}

ValidateStatuses == {MISSING, JNum(200), JNum(99), JBool(TRUE), JStr(<<"a">>)}

ValidateHeaderRegexes ==
    {MISSING,
     JObj(K("x-id") :> JStr(<<"a">>)),
     JObj(K("x-id") :> JStr(<<"a", "(">>)),
     JObj(K("x-id") :> JNum(5)),
     JObj(K("x-id") :> JNull)}
    \cup {JNum(5), JArr(<<>>)}

\* the `type` of the one check of the drawn documents
ValidateTypes ==
    {MISSING, JStr(K("string")), JStr(K("bogus")),
     JArr(<<JStr(K("string")), JStr(K("null"))>>),
     JArr(<<JNum(5)>>), JArr(<<JArr(<<>>)>>), JArr(<<JObj(<<>>)>>), JArr(<<>>)}
    \cup Misfits

ValidateDocs ==
    {JObj(Item("status", s) @@ Item("headers_regex", h)
          @@ K("json") :> JObj(K("checks") :>
                 JArr(<<JObj(K("path") :> JStr(<<"a">>) @@ Item("present", p) @@ Item("type", t))>>))) :
        s \in ValidateStatuses, h \in ValidateHeaderRegexes,
        t \in ValidateTypes, p \in {MISSING, JBool(TRUE)}}
    \cup Misfits

InitValidate ==
    /\ fn = "none"
    /\ arg \in ValidateDocs
    /\ ret = <<>>
    /\ InitOffCall

CallValidate ==
    /\ fn = "none"
    /\ fn' = "validate_expected_spec"
    /\ ret' = validate_expected_spec(arg)
    /\ UNCHANGED <<arg, offCall>>

NextValidate == CallValidate

SpecValidate == InitValidate /\ [][NextValidate]_vars

(***************************************************************************)
(* Test-case authoring (routers/api_cases).  One file with one API; the    *)
(* rows of api_cases are kept in insertion order, a case id is the index   *)
(* of its row.  Each request is answered with a status code.               *)
(***************************************************************************)
MaxRows == 3

CaseNames == {"login", "logout"}
\* a field the request leaves out
None == JNull

\* the `expected` of a request: left out, empty, accepted by the validator,
\* rejected by it, and one on which it raises
AuthorDocs ==
    {None, JObj(<<>>),
     JObj(K("status") :> JNum(200)),
     JObj(K("status") :> JNum(99)),
     JObj(K("headers_regex") :> JObj(K("x-id") :> JNum(5)))}

\* the guard of the endpoints that always validate: create_api_case.py:30-33,
\* update_case.py:29-32; an exception is answered by ExceptionHandler
Rejected(expected) ==
    IsRaised(validate_expected_spec(expected)) \/ ~Val(validate_expected_spec(expected))[1]

\* the status of a rejection: 422 for shape errors; a TypeError goes to
\* ExceptionHandler, which answers 400 (utils.py:210-212)
RejectionStatus(expected) ==
    IF IsRaised(validate_expected_spec(expected)) THEN 400 ELSE 422

NameTaken(name) == \E i \in DOMAIN cases : cases[i].name = name

InitAuthor ==
    /\ cases = <<>>
    /\ fn = "none" /\ arg = <<>> /\ ret = 0
    /\ IdleRun /\ IdleExec /\ IdleDb

\* the request is answered with a status and the table is left as it was
Answer(endpoint, request, status) ==
    /\ fn' = endpoint /\ arg' = request /\ ret' = status
    /\ UNCHANGED cases

\* the request is answered with a status and the table becomes rows
Commit(endpoint, request, status, rows) ==
    /\ fn' = endpoint /\ arg' = request /\ ret' = status
    /\ cases' = rows

\* create_api_case.py:29-78
create_test_case_for_file_api(name, expected, access) ==
    LET request == [name |-> name, expected |-> expected]
        endpoint == "create_test_case_for_file_api"
    IN  /\ Len(cases) < MaxRows
        /\ IF Rejected(expected) THEN Answer(endpoint, request, RejectionStatus(expected))
           ELSE IF ~access THEN Answer(endpoint, request, 206)
           ELSE IF NameTaken(name) THEN Answer(endpoint, request, 400)
           ELSE Commit(endpoint, request, 201,
                       Append(cases, [name |-> name, expected |-> expected]))
        /\ UNCHANGED <<runVars, ex, dbVars>>

\* save_api_case.py:31-161; case_id 0 is a request without one
save_api_case(case_id, name, expected, access) ==
    LET request == [case_id |-> case_id, name |-> name, expected |-> expected]
        endpoint == "save_api_case"
    IN  /\ case_id = 0 => Len(cases) < MaxRows
        /\ IF expected # None /\ Rejected(expected)
           THEN Answer(endpoint, request, RejectionStatus(expected))
           ELSE IF ~access THEN Answer(endpoint, request, 206)
           ELSE IF case_id # 0
           THEN IF case_id \notin DOMAIN cases THEN Answer(endpoint, request, 206)
                ELSE Commit(endpoint, request, 200,
                            [cases EXCEPT ![case_id] =
                                [name |-> name,
                                 expected |-> IF expected # None THEN expected ELSE @.expected]])
           ELSE IF NameTaken(name) THEN Answer(endpoint, request, 400)
           ELSE Commit(endpoint, request, 201,
                       Append(cases, [name |-> name, expected |-> expected]))
        /\ UNCHANGED <<runVars, ex, dbVars>>

\* save_api_case.py:164-257
bulk_create_api_cases(requests, access) ==
    LET endpoint == "bulk_create_api_cases"
        names == [i \in DOMAIN requests |-> requests[i].name]
    IN  /\ Len(cases) + Len(requests) <= MaxRows
        /\ IF ~access THEN Answer(endpoint, requests, 206)
           ELSE IF \E i, j \in DOMAIN names : i # j /\ names[i] = names[j]
           THEN Answer(endpoint, requests, 400)
           ELSE IF \E i \in DOMAIN names : NameTaken(names[i])
           THEN Answer(endpoint, requests, 400)
           ELSE IF \E i \in DOMAIN requests :
                     /\ requests[i].expected # None
                     /\ IsRaised(validate_expected_spec(requests[i].expected))
           THEN Answer(endpoint, requests, 400)
           ELSE IF \E i \in DOMAIN requests :
                     /\ requests[i].expected # None
                     /\ ~Val(validate_expected_spec(requests[i].expected))[1]
           THEN Answer(endpoint, requests, 422)
           ELSE Commit(endpoint, requests, 201, cases \o requests)
        /\ UNCHANGED <<runVars, ex, dbVars>>

\* a name the request of update_test_case leaves out (schema.py:588-593:
\* every field of UpdateTestCaseRequest is Optional and defaults to None)
NoName == "None"

\* update_case.py:21-81: the validator runs on request.expected first, then
\* each field that is not None is assigned
update_test_case(case_id, name, expected, access) ==
    LET request == [case_id |-> case_id, name |-> name, expected |-> expected]
        endpoint == "update_test_case"
    IN  /\ IF Rejected(expected) THEN Answer(endpoint, request, RejectionStatus(expected))
           ELSE IF ~access \/ case_id \notin DOMAIN cases THEN Answer(endpoint, request, 206)
           ELSE Commit(endpoint, request, 200,
                       [cases EXCEPT ![case_id] =
                           [name |-> IF name # NoName THEN name ELSE @.name,
                            expected |-> IF expected # None THEN expected ELSE @.expected]])
        /\ UNCHANGED <<runVars, ex, dbVars>>

NextAuthor ==
    \/ \E name \in CaseNames, expected \in AuthorDocs, access \in BOOLEAN :
         create_test_case_for_file_api(name, expected, access)
    \/ \E case_id \in 0..MaxRows, name \in CaseNames, expected \in AuthorDocs, access \in BOOLEAN :
         save_api_case(case_id, name, expected, access)
    \/ \E requests \in UNION {[1..n -> [name : CaseNames, expected : AuthorDocs]] : n \in 1..2},
          access \in BOOLEAN :
         bulk_create_api_cases(requests, access)
    \/ \E case_id \in 1..MaxRows, name \in CaseNames \cup {NoName},
          expected \in AuthorDocs, access \in BOOLEAN :
         update_test_case(case_id, name, expected, access)

SpecAuthor == InitAuthor /\ [][NextAuthor]_vars

(***************************************************************************)
(* utils.py: variable substitution.  The variable map is a function from   *)
(* names (strs) to values; texts, dicts and lists are JSON values.         *)
(***************************************************************************)
\* str.strip() on the symbols of this model: the blanks at both ends go
RECURSIVE LStrip(_)
LStrip(text) == IF text # <<>> /\ Head(text) = " " THEN LStrip(Tail(text)) ELSE text
RECURSIVE RStrip(_)
RStrip(text) ==
    IF text # <<>> /\ text[Len(text)] = " " THEN RStrip(SubSeq(text, 1, Len(text) - 1)) ELSE text
Strip(text) == RStrip(LStrip(text))

\* the decimal digits of a natural number
RECURSIVE DigitsOf(_)
DigitsOf(n) ==
    IF n < 10 THEN <<Digits[n + 1]>> ELSE DigitsOf(n \div 10) \o <<Digits[(n % 10) + 1]>>

\* str(value) for the values a variable takes: a str is itself, an int its digits
PyStr(value) == IF IsStr(value) THEN Val(value) ELSE DigitsOf(Val(value))

\* the end of the match of \{\{([^}]+)\}\} that starts at the first symbol
\* of text, 0 when there is none: "{{", one or more symbols other than "}",
\* then "}}"
MatchEnd(text) ==
    IF Len(text) < 5 \/ text[1] # "{" \/ text[2] # "{" THEN 0
    ELSE IF \A j \in 3..Len(text) : text[j] # "}" THEN 0
    ELSE IF /\ Min({j \in 3..Len(text) : text[j] = "}"}) > 3
            /\ Min({j \in 3..Len(text) : text[j] = "}"}) < Len(text)
            /\ text[Min({j \in 3..Len(text) : text[j] = "}"}) + 1] = "}"
    THEN Min({j \in 3..Len(text) : text[j] = "}"}) + 1
    ELSE 0

\* utils.py:542-544 replace_match: the value of the stripped name, or the
\* match itself when the map has no such name
ReplaceMatch(match, variables) ==
    IF Strip(SubSeq(match, 3, Len(match) - 2)) \in DOMAIN variables
    THEN PyStr(variables[Strip(SubSeq(match, 3, Len(match) - 2))])
    ELSE match

\* re.sub(pattern, replace_match, text): one pass from left to right, the
\* replacements are not scanned again
RECURSIVE Substitute(_, _)
RECURSIVE SubstituteAt(_, _, _)
SubstituteAt(end, text, variables) ==
    IF end = 0 THEN <<Head(text)>> \o Substitute(Tail(text), variables)
    ELSE ReplaceMatch(SubSeq(text, 1, end), variables)
             \o Substitute(SubSeq(text, end + 1, Len(text)), variables)

Substitute(text, variables) ==
    IF text = <<>> THEN <<>> ELSE SubstituteAt(MatchEnd(text), text, variables)

\* utils.py:528-547
replace_variables_in_text(text, variables) ==
    IF ~IsStr(text) \/ DOMAIN variables = {} THEN text
    ELSE JStr(Substitute(Val(text), variables))

\* utils.py:550-603 the value of one item of a dict or list
RECURSIVE ReplaceValue(_, _)
ReplaceValue(value, variables) ==
    IF IsStr(value) THEN replace_variables_in_text(value, variables)
    ELSE IF IsDict(value)
    THEN JObj([k \in DOMAIN Val(value) |-> ReplaceValue(Val(value)[k], variables)])
    ELSE IF IsList(value)
    THEN JArr([i \in DOMAIN Val(value) |-> ReplaceValue(Val(value)[i], variables)])
    ELSE value

\* utils.py:550-575
replace_variables_in_dict(data, variables) ==
    IF ~IsDict(data) \/ DOMAIN variables = {} THEN data ELSE ReplaceValue(data, variables)

\* utils.py:578-603
replace_variables_in_list(data, variables) ==
    IF ~IsList(data) \/ DOMAIN variables = {} THEN data ELSE ReplaceValue(data, variables)

(***************************************************************************)
(* routers/runner/execute_direct.py.  A URL is a str whose symbols are its *)
(* scheme, host, port and path, so that `'localhost' in url` asks for the  *)
(* host symbol "localhost".                                                *)
(***************************************************************************)
HasSymbol(text, sym) == \E i \in 1..Len(text) : text[i] = sym

\* url.replace('localhost', by)
RECURSIVE ReplaceLocalhost(_, _)
ReplaceLocalhost(url, by) ==
    IF url = <<>> THEN <<>>
    ELSE (IF Head(url) = "localhost" THEN by ELSE <<Head(url)>>)
             \o ReplaceLocalhost(Tail(url), by)

\* 'localhost:8003' in url
HasLocalhost8003(url) ==
    \E i \in 1..(Len(url) - 1) : url[i] = "localhost" /\ url[i + 1] = ":8003"

\* url.replace('localhost:8003', 'mes_dashboard_dev:8000')
RECURSIVE ReplaceLocalhost8003(_)
ReplaceLocalhost8003(url) ==
    IF url = <<>> THEN <<>>
    ELSE IF Len(url) >= 2 /\ url[1] = "localhost" /\ url[2] = ":8003"
    THEN <<"mes_dashboard_dev", ":8000">> \o ReplaceLocalhost8003(SubSeq(url, 3, Len(url)))
    ELSE <<Head(url)>> \o ReplaceLocalhost8003(Tail(url))

\* execute_direct.py:56-61 the list without its repetitions, order kept
RECURSIVE UniqueUrls(_, _)
UniqueUrls(urls, seen) ==
    IF urls = <<>> THEN <<>>
    ELSE IF Head(urls) \in seen THEN UniqueUrls(Tail(urls), seen)
    ELSE <<Head(urls)>> \o UniqueUrls(Tail(urls), seen \cup {Head(urls)})

\* execute_direct.py:33-53 the candidates before the repetitions are removed
AlternativeUrls(url, docker_host) ==
    <<url>>
    \o (IF HasSymbol(url, "localhost")
        THEN <<ReplaceLocalhost(url, <<"host.docker.internal">>),
               ReplaceLocalhost(url, <<"172.17.0.1">>),
               ReplaceLocalhost(url, <<"127.0.0.1">>)>>
             \o (IF HasLocalhost8003(url) THEN <<ReplaceLocalhost8003(url)>> ELSE <<>>)
             \o (IF Truthy(docker_host)
                 THEN <<ReplaceLocalhost(url, Val(docker_host))>> ELSE <<>>)
        ELSE <<>>)

\* the candidates with their repetitions left in, as the function would
\* return them without its last loop
resolve_docker_url_with_repeats(url, docker_host) == AlternativeUrls(url, docker_host)

\* execute_direct.py:27-63; docker_host is os.getenv('DOCKER_HOST_IP')
resolve_docker_url(url, docker_host) == UniqueUrls(AlternativeUrls(url, docker_host), {})

\* execute_direct.py:235-240 {**defaults, **folder_headers, **resolved_headers}
DefaultHeaders ==
    K("Content-Type") :> JStr(<<"application/json">>)
    @@ K("User-Agent") :> JStr(<<"API-Testing-Tool/1.0">>)

\* execute_direct.py:243-244
NgrokHeaders(resolved_url) ==
    IF HasSymbol(resolved_url, "app.ngrok.io") \/ HasSymbol(resolved_url, "x.ngrok-free.app")
    THEN K("ngrok-skip-browser-warning") :> JStr(<<"true">>) ELSE <<>>

MergeHeaders(folder_headers, resolved_headers, resolved_url) ==
    NgrokHeaders(resolved_url) @@ resolved_headers @@ folder_headers @@ DefaultHeaders

\* execute_direct.py:252 '&'.join(f"{k}={v}" ...) over the items that are not None
RECURSIVE ParamString(_, _)
ParamString(keys, params) ==
    IF keys = <<>> THEN <<>>
    ELSE IF params[Head(keys)] = JNull THEN ParamString(Tail(keys), params)
    ELSE Head(keys) \o <<"=">> \o PyStr(params[Head(keys)])
             \o (IF ParamString(Tail(keys), params) = <<>> THEN <<>>
                 ELSE <<"&">> \o ParamString(Tail(keys), params))

\* execute_direct.py:250-255
FinalUrl(resolved_url, param_string) ==
    IF param_string = <<>> THEN resolved_url
    ELSE resolved_url \o <<IF HasSymbol(resolved_url, "?") THEN "&" ELSE "?">> \o param_string

\* str.upper() on the methods of this model
Upper(method) ==
    CASE method = "get" -> "GET"
      [] method = "post" -> "POST"
      [] OTHER -> method

\* execute_direct.py:223-232
ResolveBody(body, variables) ==
    IF IsStr(body) THEN replace_variables_in_text(body, variables)
    ELSE IF IsDict(body) THEN replace_variables_in_dict(body, variables)
    ELSE IF IsList(body) THEN replace_variables_in_list(body, variables)
    ELSE body

\* the requests of this model: a URL on localhost:8003, one on another
\* host, and one whose base is a variable; placeholders in the request
\* headers, the query parameters and the body
Placeholder(name) == <<"{", "{", name, "}", "}">>

ExecUrls ==
    {<<"http://", "localhost", ":8003", "/api">>,
     <<"https://", "example.com", "/api">>,
     Placeholder("base") \o <<"/api">>}

ExecRequests ==
    [url : {JStr(u) : u \in ExecUrls},
     method : {"GET", "post"},
     headers : {JObj(<<>>), JObj(K("Authorization") :> JStr(<<"Bearer ">> \o Placeholder("token")))},
     params : {JObj(<<>>), JObj(K("q") :> JStr(Placeholder("token")))},
     body : {None, JObj(K("key") :> JStr(Placeholder("token")))}]

\* the variables of the environment in use: none, or a token and a base URL
ExecVariables ==
    {<<>>, K("token") :> JStr(<<"s3cret">>) @@ K("base") :> JStr(<<"http://", "localhost">>)}

\* the content of the Header row of the folder: none, one with a
\* placeholder, one the request overrides
ExecFolderHeaders ==
    {<<>>, K("X-Api-Key") :> JStr(Placeholder("token")), K("Authorization") :> JStr(<<"folder">>)}

\* os.getenv('DOCKER_HOST_IP'): unset, an address of its own, or one that
\* repeats a built-in alternative
ExecDockerHosts == {None, JStr(<<"10.0.0.5">>), JStr(<<"127.0.0.1">>)}

\* what client.request does for one candidate: a response of the server at
\* that URL, or a request error (ConnectError, ReadTimeout: both are
\* httpx.RequestError).  An exception outside httpx.RequestError, such as
\* httpx.InvalidURL for a malformed URL, is outside this model.
ResponseStatuses == {200, 500}
RequestErrors == {"ConnectError", "ReadTimeout"}

InitExec ==
    /\ \E request \in ExecRequests, variables \in ExecVariables,
          folder_headers \in ExecFolderHeaders, docker_host \in ExecDockerHosts :
         ex = [pc |-> "received", request |-> request, variables |-> variables,
               folder_headers |-> folder_headers, docker_host |-> docker_host,
               final_url |-> <<>>, final_headers |-> <<>>, request_data |-> <<>>,
               alternative_urls |-> <<>>, attempts |-> <<>>, last_error |-> None,
               result |-> None]
    /\ IdleRun /\ IdleCall /\ IdleStore /\ IdleDb

\* execute_direct.py:262-281 the request handed to client.request, but for its url
RequestData(method, final_url, final_headers, resolved_body) ==
    [method |-> Upper(method), url |-> final_url, headers |-> final_headers,
     body |-> IF Upper(method) # "GET" THEN resolved_body ELSE None]

\* execute_direct.py:219-281 from the resolved URL on
PreparedFrom(resolved_url, final_url) ==
    [ex EXCEPT
        !.pc = "attempting",
        !.final_url = final_url,
        !.final_headers =
            MergeHeaders(ex.folder_headers,
                         Val(replace_variables_in_dict(ex.request.headers, ex.variables)),
                         resolved_url),
        !.request_data =
            RequestData(ex.request.method, final_url,
                        MergeHeaders(ex.folder_headers,
                                     Val(replace_variables_in_dict(ex.request.headers, ex.variables)),
                                     resolved_url),
                        ResolveBody(ex.request.body, ex.variables)),
        !.alternative_urls = resolve_docker_url(final_url, ex.docker_host)]

\* execute_direct.py:219-255 the URL resolved, then with its query string
ResolvedUrl == Val(replace_variables_in_text(ex.request.url, ex.variables))
ResolvedParams == Val(replace_variables_in_dict(ex.request.params, ex.variables))

\* execute_api_direct up to its first request: the user and the file are
\* looked up, the variables resolved, the headers merged, the candidates listed
Prepare ==
    /\ ex.pc = "received"
    /\ \E access \in BOOLEAN :
         IF ~access
         THEN ex' = [ex EXCEPT !.pc = "done", !.result = [kind |-> "denied", response_code |-> 400]]
         ELSE ex' = PreparedFrom(ResolvedUrl,
                                 FinalUrl(ResolvedUrl,
                                          ParamString(KeysInOrder(DOMAIN ResolvedParams),
                                                      ResolvedParams)))
    /\ UNCHANGED <<runVars, callVars, cases, dbVars>>

\* the candidate the loop is at
AttemptUrl == ex.alternative_urls[Len(ex.attempts) + 1]

\* execute_direct.py:316-335 the data returned for a response
ResultOf(response) ==
    [kind |-> "response",
     status_code |-> response.status,
     text |-> response.body,
     resolved_url |-> ex.final_url,
     resolved_headers |-> ex.final_headers,
     original_url |-> Val(ex.request.url)]

\* utils.py:167-203 the answer of ExceptionHandler for a request error
ErrorResultOf(error) ==
    [kind |-> "error",
     error |-> error,
     response_code |-> IF error = "ReadTimeout" THEN 408 ELSE 502,
     target_url |-> ex.final_url]

\* execute_direct.py:289-293 and 303-335: the candidate answers; the loop
\* breaks and the result is built from this response
AttemptAnswered ==
    /\ ex.pc = "attempting"
    /\ \E status \in ResponseStatuses :
         ex' = [ex EXCEPT
                  !.pc = "done",
                  !.attempts = Append(@, [url |-> AttemptUrl, outcome |-> "response",
                                          status |-> status, request |-> ex.request_data]),
                  !.result = ResultOf([status |-> status, body |-> <<"from">> \o AttemptUrl])]
    /\ UNCHANGED <<runVars, callVars, cases, dbVars>>

\* execute_direct.py:294-301 and 337-344: the candidate raises a request
\* error; the loop goes on, and after the last candidate raises that error
AttemptFailed ==
    /\ ex.pc = "attempting"
    /\ \E error \in RequestErrors :
         ex' = [ex EXCEPT
                  !.attempts = Append(@, [url |-> AttemptUrl, outcome |-> error,
                                          status |-> 0, request |-> ex.request_data]),
                  !.last_error = error,
                  !.pc = IF Len(ex.attempts) + 1 = Len(ex.alternative_urls)
                         THEN "done" ELSE "attempting",
                  !.result = IF Len(ex.attempts) + 1 = Len(ex.alternative_urls)
                             THEN ErrorResultOf(error) ELSE None]
    /\ UNCHANGED <<runVars, callVars, cases, dbVars>>

NextExec == Prepare \/ AttemptAnswered \/ AttemptFailed

SpecExec == InitExec /\ [][NextExec]_vars

(***************************************************************************)
(* Header precedence: the three places that build the headers of a request *)
(* from the folder level, the API or request level and the case level      *)
(***************************************************************************)
\* get_case.py:71-83 api.extra_meta["headers"] when it is a dict, else {}
ApiExtraHeaders(api_headers) ==
    IF IsDict(api_headers) THEN Val(api_headers) ELSE <<>>

\* get_case.py:85-93 {**{**inherited, **api_extra}, **(case.headers or {})}
CombinedHeaders(inherited_headers, api_headers, case_headers) ==
    (IF Truthy(case_headers) THEN Val(case_headers) ELSE <<>>)
        @@ ApiExtraHeaders(api_headers) @@ inherited_headers

\* runner.py:106-113 str.replace("${ts}", str(ts)) on a str, symbol by symbol
RECURSIVE ReplaceTsText(_, _)
ReplaceTsText(s, ts) ==
    IF s = <<>> THEN <<>>
    ELSE (IF Head(s) = "${ts}" THEN ts ELSE <<Head(s)>>) \o ReplaceTsText(Tail(s), ts)

\* runner.py:106-113 replace_ts on the values of a flat dict of this model
replace_ts(d, ts) ==
    [k \in DOMAIN d |-> IF IsStr(d[k]) THEN JStr(ReplaceTsText(Val(d[k]), ts)) ELSE d[k]]

\* runner.py:269 {**meta, **case}: every key of the case, "headers" as a
\* whole included, replaces the key of the file's meta
MergedCase(meta, case) == case @@ meta

\* the file's meta and the case as run_tests reads them: a level without
\* headers has no "headers" key
WithHeaders(d, headers) ==
    IF headers = JNull THEN d ELSE (K("headers") :> headers) @@ d

\* runner.py:123-124 {**global_headers, **svc_headers, **case.get("headers", {})}
\* and replace_ts over the result
RunCaseHeaders(global_headers, svc_headers, case, ts) ==
    replace_ts(Val(Get(case, K("headers"), JObj(<<>>))) @@ svc_headers @@ global_headers, ts)

\* the header names and values of this model; no value holds "${ts}"
HeaderKeys == {K("Authorization"), K("X-Trace")}
HeaderValues == {JStr(<<"a">>), JStr(<<"b">>)}
HeaderMaps == UNION {[S -> HeaderValues] : S \in SUBSET HeaderKeys}
\* a level that may have no headers at all (NULL column, key not in the file)
OptionalHeaderMaps == {JNull} \cup {JObj(h) : h \in HeaderMaps}

InitHeaders ==
    /\ fn = "none"
    /\ arg \in [folder : HeaderMaps, api : OptionalHeaderMaps, case : OptionalHeaderMaps]
    /\ ret = <<>>
    /\ InitOffCall

\* GET /case/{case_id}
CallCaseDetails ==
    /\ fn = "none"
    /\ fn' = "get_test_case_details"
    /\ ret' = <<CombinedHeaders(arg.folder, arg.api, arg.case)>>
    /\ UNCHANGED <<arg, offCall>>

\* run_tests over one file with one case: the folder's headers.yaml chain,
\* the file's meta, the case; config.yaml has no default_headers
CallRunCase ==
    /\ fn = "none"
    /\ fn' = "_run_case"
    /\ ret' = <<RunCaseHeaders(<<>>, arg.folder,
                   MergedCase(WithHeaders(K("method") :> JStr(<<"GET">>), arg.api),
                              WithHeaders(K("name") :> JStr(<<"login">>), arg.case)),
                   <<"1700000000000">>)>>
    /\ UNCHANGED <<arg, offCall>>

\* execute_api_direct, which has a request level and no case level; no
\* variables are defined and the URL is not an ngrok one
CallExecuteMerge ==
    /\ fn = "none"
    /\ arg.case = JNull
    /\ fn' = "execute_api_direct"
    /\ ret' = <<MergeHeaders(arg.folder,
                   Val(replace_variables_in_dict(
                         IF arg.api = JNull THEN JObj(<<>>) ELSE arg.api, <<>>)),
                   <<"http://", "example.com", "/api">>)>>
    /\ UNCHANGED <<arg, offCall>>

NextHeaders == CallCaseDetails \/ CallRunCase \/ CallExecuteMerge
SpecHeaders == InitHeaders /\ [][NextHeaders]_vars

(***************************************************************************)
(* The two resolvers of `{{name}}` placeholders: utils.py and              *)
(* routers/environment/resolve_variables.py                                *)
(***************************************************************************)
\* the symbols [a-zA-Z_] and [a-zA-Z0-9_\-] of this model
IdentStartSymbols == {"a", "b", "v", "_"}
IdentSymbols == IdentStartSymbols \cup {"1", "7", "-"}

\* the end of the match of \{\{([a-zA-Z_][a-zA-Z0-9_\-]*)\}\} that starts at
\* the first symbol of text, 0 when there is none; j is the index of the
\* first symbol after the identifier
IdentMatchEndAt(text, j) ==
    IF j < Len(text) /\ text[j] = "}" /\ text[j + 1] = "}" THEN j + 1 ELSE 0

IdentMatchEnd(text) ==
    IF Len(text) < 5 \/ text[1] # "{" \/ text[2] # "{" \/ text[3] \notin IdentStartSymbols
    THEN 0
    ELSE IF \A j \in 4..Len(text) : text[j] \in IdentSymbols THEN 0
    ELSE IdentMatchEndAt(text, Min({j \in 4..Len(text) : text[j] \notin IdentSymbols}))

\* resolve_variables.py:26-28 replace_variable: the value as it is, not
\* stringified, or the match itself when the map has no such name
ReplaceVariable(match, variables) ==
    IF SubSeq(match, 3, Len(match) - 2) \in DOMAIN variables
    THEN variables[SubSeq(match, 3, Len(match) - 2)]
    ELSE JStr(match)

\* re.sub(pattern, replace_variable, text): the pieces it joins, one per
\* match and one per symbol outside a match
RECURSIVE ResolvePieces(_, _)
RECURSIVE ResolvePiecesAt(_, _, _)
ResolvePiecesAt(end, text, variables) ==
    IF end = 0 THEN <<JStr(<<Head(text)>>)>> \o ResolvePieces(Tail(text), variables)
    ELSE <<ReplaceVariable(SubSeq(text, 1, end), variables)>>
             \o ResolvePieces(SubSeq(text, end + 1, Len(text)), variables)

ResolvePieces(text, variables) ==
    IF text = <<>> THEN <<>> ELSE ResolvePiecesAt(IdentMatchEnd(text), text, variables)

\* ''.join of the pieces
RECURSIVE JoinPieces(_)
JoinPieces(pieces) ==
    IF pieces = <<>> THEN <<>> ELSE Val(Head(pieces)) \o JoinPieces(Tail(pieces))

\* resolve_variables.py:24-31; re.sub raises TypeError when the function
\* returns a value that is not a str
resolve_variables_in_text(text, variables) ==
    IF \E i \in DOMAIN ResolvePieces(Val(text), variables) :
          ~IsStr(ResolvePieces(Val(text), variables)[i])
    THEN Raised("TypeError")
    ELSE JStr(JoinPieces(ResolvePieces(Val(text), variables)))

\* the texts of this model: every text of up to MaxText symbols over braces
\* and two names, and some with a blank, a digit, a hyphen or a longer nesting
MaxText == 5
ResolveSymbols == {"{", "}", "a", "b"}
ResolveTexts ==
    UNION {[1..n -> ResolveSymbols] : n \in 0..MaxText}
    \cup {<<"{", "{", " ", "a", " ", "}", "}">>, <<"{", "{", "1", "}", "}">>,
          <<"{", "{", "a", "-", "b", "}", "}">>, <<"{", "{", "{", "{", "a", "}", "}">>,
          <<"{", "{", "a", "}", "}", "/", "{", "{", "b", "}", "}">>}

\* the templates: a text, and a text as the value of a dict or the item of
\* a list
ResolveTemplates ==
    {JStr(t) : t \in ResolveTexts}
    \cup {JObj(K("key") :> JStr(t)) : t \in ResolveTexts}
    \cup {JArr(<<JStr(t), JNum(7)>>) : t \in ResolveTexts}

\* the variable maps: over the names a, b and 1, with a plain value, a value
\* that is itself a placeholder, and an int
ResolveValues == {JStr(<<"v">>), JStr(Placeholder("b")), JNum(7)}
ResolveVariables ==
    UNION {[S -> ResolveValues] : S \in SUBSET {K("a"), K("b")}}
    \cup {K("1") :> JStr(<<"v">>)}

InitResolve ==
    /\ fn = "none"
    /\ arg \in [template : ResolveTemplates, variables : ResolveVariables]
    /\ ret = <<>>
    /\ InitOffCall

\* the resolver of utils.py on a text, a dict or a list
CallReplaceVariables ==
    /\ fn = "none"
    /\ fn' = "replace_variables"
    /\ ret' = <<ResolveBody(arg.template, arg.variables)>>
    /\ UNCHANGED <<arg, offCall>>

\* the same resolver on what it returned, with the same variable map
CallReplaceVariablesAgain ==
    /\ fn = "replace_variables"
    /\ fn' = "replace_variables again"
    /\ ret' = Append(ret, ResolveBody(ret[1], arg.variables))
    /\ UNCHANGED <<arg, offCall>>

\* the resolver of resolve_variables.py on a text
CallResolveVariables ==
    /\ fn = "none"
    /\ IsStr(arg.template)
    /\ fn' = "resolve_variables_in_text"
    /\ ret' = <<resolve_variables_in_text(arg.template, arg.variables)>>
    /\ UNCHANGED <<arg, offCall>>

NextResolve == CallReplaceVariables \/ CallReplaceVariablesAgain \/ CallResolveVariables
SpecResolve == InitResolve /\ [][NextResolve]_vars

(***************************************************************************)
(* Calls of _apply_check and _resolve_path: a body and one check are drawn *)
(***************************************************************************)
\* the value at "n" in the drawn bodies: one of each JSON kind, a float
\* beside the int, and none
CheckFieldValues ==
    {MISSING, JStr(<<"3", ".", "1", "4">>), JNum(3), JFloat(3), JBool(TRUE), JNull,
     JObj(K("x") :> JNum(3)), JArr(<<JNum(10), JNum(20)>>)}

\* the drawn bodies: an object with or without "n", one whose key starts
\* with "#", a list, and null
CheckBodies ==
    {JObj(Item("n", v)) : v \in CheckFieldValues}
    \cup {JObj(<<"#", "id">> :> JNum(3)), JArr(<<JNum(10), JNum(20)>>), JNull}

\* the drawn paths: keys, indexes in and out of range, a root, doubled
\* dots, and keys that start with "#"
CheckPaths ==
    {<<"n">>, <<"$", ".", "n">>, <<"$">>, <<".", ".", "n">>, <<"n", ".", "x">>,
     <<"n", "[", "1", "]">>, <<"n", "[", "5", "]">>, <<"[", "0", "]">>,
     <<"#", "id">>, <<"#", "1">>, <<"n", ".", "#">>}

\* the drawn checks: a path, present and absent unset, true or false, and
\* other predicates unset or set
CheckTypes ==
    {MISSING, JArr(<<JStr(<<"string">>), JStr(<<"null">>)>>)}
    \cup {JStr(<<k>>) : k \in TypeNames}
CheckFlags == {MISSING, JBool(TRUE), JBool(FALSE)}
CheckDicts ==
    {K("path") :> JStr(p) @@ Item("present", pr) @@ Item("absent", ab)
        @@ Item("type", t) @@ Item("equals", eq) :
        p \in CheckPaths, pr \in CheckFlags, ab \in CheckFlags, t \in CheckTypes,
        eq \in {MISSING, JNum(3)}}

InitCheck ==
    /\ fn = "none"
    /\ arg \in [body : CheckBodies, chk : CheckDicts]
    /\ ret = <<>>
    /\ InitOffCall

\* _apply_check(body, chk, failures) on an empty failure list
CallApplyCheck ==
    /\ fn = "none"
    /\ fn' = "_apply_check"
    /\ ret' = <<_apply_check(arg.body, arg.chk)>>
    /\ UNCHANGED <<arg, offCall>>

\* _resolve_path(body, path) with the path of the check
CallResolvePath ==
    /\ fn = "none"
    /\ fn' = "_resolve_path"
    /\ ret' = <<_resolve_path(arg.body, Val(arg.chk[K("path")]))>>
    /\ UNCHANGED <<arg, offCall>>

NextCheck == CallApplyCheck \/ CallResolvePath
SpecCheck == InitCheck /\ [][NextCheck]_vars

(***************************************************************************)
(* Calls of evaluate_expect on specs with several sections at once: a      *)
(* status, text needles, headers, a json block of two checks and the       *)
(* _require_content_for_error flag                                         *)
(***************************************************************************)
\* the checks of the json block: two that a body may fail together, and
\* one with two predicates
CollectChecks ==
    {Check(<<"a">>, "equals", JNum(1)),
     Check(<<"b">>, "present", JBool(TRUE)),
     JObj(K("path") :> JStr(<<"a">>) @@ K("type") :> JStr(<<"string">>) @@ K("gt") :> JNum(5))}

CollectJsonBlocks ==
    {MISSING, JObj(<<>>)}
    \cup {JObj(K("checks") :> JArr(<<c, d>>)) : c \in CollectChecks, d \in CollectChecks}

CollectExpects ==
    {Item("status", s) @@ Item("text_contains", tc) @@ Item("text_regex", tr)
        @@ Item("headers", h) @@ Item("json", j) @@ Item("_require_content_for_error", f) :
        s \in {MISSING, JNum(200)},
        tc \in {MISSING, JStr(<<"o", "k">>), JArr(<<JStr(<<"n", "o">>), JStr(<<"k", "o">>)>>)},
        tr \in {MISSING, JStr(<<"^", "k">>)},
        h \in {MISSING, JObj(K("X-Id") :> JStr(<<"a">>) @@ K("Content-Type") :> JStr(<<"b">>))},
        j \in CollectJsonBlocks,
        f \in {MISSING, JBool(TRUE), JBool(FALSE)}}

\* the responses: a success, a client and a server error, the ends of the
\* error range and the first status after it; headers none or one of the
\* two expected
CollectResponses ==
    {[status_code |-> s, text |-> <<"o", "k">>, json |-> b, headers |-> h] :
        s \in {200, 399, 400, 404, 599, 600},
        b \in {NotJson, JNull, JObj(K("a") :> JNum(1)), JObj(K("a") :> JNum(2))},
        h \in {<<>>, K("x-id") :> <<"a">>}}

InitCollect ==
    /\ fn = "none"
    /\ arg \in [resp : CollectResponses, expect : CollectExpects]
    /\ ret = <<>>
    /\ InitOffCall

\* the runner's call of evaluate_expect on a response
CallEvaluateAll ==
    /\ fn = "none"
    /\ fn' = "evaluate_expect"
    /\ ret' = evaluate_expect(arg.resp, arg.expect)
    /\ UNCHANGED <<arg, offCall>>

NextCollect == CallEvaluateAll
SpecCollect == InitCollect /\ [][NextCollect]_vars

(***************************************************************************)
(* The report views: run_tests groups its results by file and by API       *)
(* signature and sorts each bucket; _merge_flat of the selective runners   *)
(* rebuilds the views from the flat results.  by_folder, a dict nested by  *)
(* the parts of the file's path, is kept as a function from the whole path *)
(* to the file node.                                                       *)
(***************************************************************************)
\* Python's order on the strs of this model: symbol by symbol, a prefix first
Alphabet == <<"a", "b", "c">>
SymRank(sym) == CHOOSE i \in DOMAIN Alphabet : Alphabet[i] = sym
RECURSIVE StrLess(_, _)
StrLess(s, t) ==
    IF t = <<>> THEN FALSE
    ELSE IF s = <<>> THEN TRUE
    ELSE IF Head(s) # Head(t) THEN SymRank(Head(s)) < SymRank(Head(t))
    ELSE StrLess(Tail(s), Tail(t))

\* runner.py:346 the key (x.get("ok") is True, x.get("case", "")) of one
\* entry, and the order of two keys: False before True, then the names
KeyLess(x, y) ==
    \/ ~x.ok /\ y.ok
    \/ x.ok = y.ok /\ StrLess(x.case, y.case)

\* list.sort(key=...): a stable sort, here by insertion from the left
RECURSIVE InsertByKey(_, _)
InsertByKey(x, sorted) ==
    IF sorted = <<>> THEN <<x>>
    ELSE IF KeyLess(x, Head(sorted)) THEN <<x>> \o sorted
    ELSE <<Head(sorted)>> \o InsertByKey(x, Tail(sorted))
RECURSIVE SortByKey(_)
SortByKey(list) ==
    IF list = <<>> THEN <<>>
    ELSE InsertByKey(list[Len(list)], SortByKey(SubSeq(list, 1, Len(list) - 1)))

\* runner.py:319-331 the entry of a file's case list: the result without
\* its hierarchy fields
CaseEntry(r) == [case |-> r.case, ok |-> r.ok, api |-> r.api]

\* runner.py:297-331 and run_case.py:299-321 the file nodes, each with its
\* cases in the order of the results
RECURSIVE CasesOfFile(_, _)
CasesOfFile(results, parts) ==
    IF results = <<>> THEN <<>>
    ELSE (IF Head(results).service_parts = parts THEN <<CaseEntry(Head(results))>> ELSE <<>>)
             \o CasesOfFile(Tail(results), parts)
GroupByFolder(results) ==
    [parts \in {results[i].service_parts : i \in DOMAIN results} |->
        [cases |-> CasesOfFile(results, parts)]]

\* runner.py:334-339 and run_case.py:323-324 the results of each signature,
\* in the order of the results
RECURSIVE ResultsOfApi(_, _)
ResultsOfApi(results, sig) ==
    IF results = <<>> THEN <<>>
    ELSE (IF Head(results).api = sig THEN <<Head(results)>> ELSE <<>>)
             \o ResultsOfApi(Tail(results), sig)
GroupByApi(results) ==
    [sig \in {results[i].api : i \in DOMAIN results} |-> ResultsOfApi(results, sig)]

\* runner.py:296-358 the views run_tests returns: grouped, then every
\* bucket sorted
RunTestsReport(results) ==
    [by_folder |-> [parts \in DOMAIN GroupByFolder(results) |->
                       [cases |-> SortByKey(GroupByFolder(results)[parts].cases)]],
     by_api |-> [sig \in DOMAIN GroupByApi(results) |-> SortByKey(GroupByApi(results)[sig])],
     flat |-> results]

\* run_case.py:297-327 the views _merge_flat returns: grouped
_merge_flat(flat) ==
    [by_folder |-> GroupByFolder(flat), by_api |-> GroupByApi(flat), flat |-> flat]

\* the results of a run: up to MaxResults cases of two files and two API
\* signatures, passed or failed, in any order
MaxResults == 3
ReportResults ==
    [case : {<<"a">>, <<"b">>, <<"a", "b">>}, ok : BOOLEAN,
     service_parts : {<<"cis", "f.json">>, <<"cis", "g.json">>},
     api : {<<"GET", " ", "/x">>, <<"POST", " ", "/x">>}]

InitReport ==
    /\ fn = "none"
    /\ arg \in UNION {[1..n -> ReportResults] : n \in 0..MaxResults}
    /\ ret = <<>>
    /\ InitOffCall

\* the end of run_tests, the results gathered
CallRunTestsReport ==
    /\ fn = "none"
    /\ fn' = "run_tests"
    /\ ret' = <<RunTestsReport(arg)>>
    /\ UNCHANGED <<arg, offCall>>

\* the end of a selective runner, the batches flattened
CallMergeFlat ==
    /\ fn = "none"
    /\ fn' = "_merge_flat"
    /\ ret' = <<_merge_flat(arg)>>
    /\ UNCHANGED <<arg, offCall>>

NextReport == CallRunTestsReport \/ CallMergeFlat
SpecReport == InitReport /\ [][NextReport]_vars

(***************************************************************************)
(* config.py: the headers a node inherits along its path from the root.    *)
(* The nodes table is a function from ids to parent ids (0 for NULL), the  *)
(* headers table a function from the folders that have a row to its        *)
(* content.                                                                *)
(***************************************************************************)
\* config.py:301-328 the ids of the path, root first; the walk stops at a
\* NULL parent, at an id already visited, or at an id without a row
RECURSIVE PathToRoot(_, _, _, _)
PathToRoot(parent, current_id, visited, path) ==
    IF current_id = 0 \/ current_id \in visited \/ current_id \notin DOMAIN parent
    THEN path
    ELSE PathToRoot(parent, parent[current_id], visited \cup {current_id},
                    <<current_id>> \o path)
get_folder_path_to_root(parent, folder_id) == PathToRoot(parent, folder_id, {}, <<>>)

\* the variant of the merge in which the folder nearest the root keeps a key
RECURSIVE MergeRootWins(_, _)
MergeRootWins(folder_path, headers_map) ==
    IF folder_path = <<>> THEN <<>>
    ELSE (IF folder_path[Len(folder_path)] \in DOMAIN headers_map
          THEN MergeRootWins(SubSeq(folder_path, 1, Len(folder_path) - 1), headers_map)
                   @@ headers_map[folder_path[Len(folder_path)]]
          ELSE MergeRootWins(SubSeq(folder_path, 1, Len(folder_path) - 1), headers_map))

\* config.py:353-402 merged_headers: the folders of the path from the root
\* to the leaf, each one's content written over what is merged so far
RECURSIVE merge_headers_with_priority(_, _)
merge_headers_with_priority(folder_path, headers_map) ==
    IF folder_path = <<>> THEN <<>>
    ELSE (IF folder_path[Len(folder_path)] \in DOMAIN headers_map
          THEN headers_map[folder_path[Len(folder_path)]]
                   @@ merge_headers_with_priority(
                          SubSeq(folder_path, 1, Len(folder_path) - 1), headers_map)
          ELSE merge_headers_with_priority(
                   SubSeq(folder_path, 1, Len(folder_path) - 1), headers_map))

\* config.py:405-421 get_headers: the path, then the merge
get_headers(parent, headers_map, folder_id) ==
    merge_headers_with_priority(get_folder_path_to_root(parent, folder_id), headers_map)

\* the trees of this model: MaxNodes nodes, the parent of a node created
\* before it; each folder has no Header row, or one whose content sets
\* some of two keys to values of its own
MaxNodes == 3
Nodes == 1..MaxNodes
NodeTrees == {p \in [Nodes -> 0..MaxNodes] : \A n \in Nodes : p[n] < n}
ContentOf(n, keys) == [k \in keys |-> JStr(<<"of">> \o DigitsOf(n))]
HeaderTables ==
    UNION {{[n \in rows |-> ContentOf(n, keys[n])] : keys \in [rows -> SUBSET HeaderKeys]} :
              rows \in SUBSET Nodes}

InitFolders ==
    /\ fn = "none"
    /\ arg \in [parent : NodeTrees, headers_map : HeaderTables, folder_id : Nodes]
    /\ ret = <<>>
    /\ InitOffCall

\* get_headers(db, folder_id) on the drawn tables
CallGetHeaders ==
    /\ fn = "none"
    /\ fn' = "get_headers"
    /\ ret' = <<get_headers(arg.parent, arg.headers_map, arg.folder_id)>>
    /\ UNCHANGED <<arg, offCall>>

NextFolders == CallGetHeaders
SpecFolders == InitFolders /\ [][NextFolders]_vars

(***************************************************************************)
(* Environments (routers/environment).  The rows of the environments       *)
(* table in insertion order: the id of a row is its index, a deleted row   *)
(* stays as a row that is not live, as ids are not given out again.  Each  *)
(* request runs to its commit before the next one starts.                  *)
(***************************************************************************)
MaxEnvs == 3

\* the workspaces of the requests; the user owns a workspace or not (access)
Workspaces == {1, 2}
EnvNames == {"dev", "prod"}
\* an Optional[bool] of a request: True, False, or left out
OptionalFlags == {"True", "False", "None"}

\* what is left at the id of a deleted row
DeletedEnv == [live |-> FALSE, workspace_id |-> 0, name |-> "", is_active |-> FALSE]

InitEnv ==
    /\ environments = <<>>
    /\ IdleRun /\ IdleCall /\ IdleStore /\ IdleExec
    /\ IdleNodes /\ IdleOtp /\ IdleCache

LiveEnv(environment_id, workspace_id) ==
    /\ environment_id \in DOMAIN environments
    /\ environments[environment_id].live
    /\ environments[environment_id].workspace_id = workspace_id

EnvNameTaken(workspace_id, name, environment_id) ==
    \E i \in DOMAIN environments :
        /\ i # environment_id
        /\ environments[i].live
        /\ environments[i].workspace_id = workspace_id
        /\ environments[i].name = name

\* the mutant of DeactivateOthers: no row is touched
DeactivateNone(rows, workspace_id, environment_id) == rows

\* update(Environment).where(workspace_id == ..., [id != environment_id])
\* .values(is_active=False); environment_id 0 excludes no row
DeactivateOthers(rows, workspace_id, environment_id) ==
    [i \in DOMAIN rows |->
        IF rows[i].workspace_id = workspace_id /\ i # environment_id
        THEN [rows[i] EXCEPT !.is_active = FALSE] ELSE rows[i]]

EnvAnswer(endpoint, status) ==
    /\ fn' = endpoint /\ ret' = status /\ UNCHANGED arg

\* create_environment.py:14-106
create_environment(workspace_id, name, is_active, access) ==
    /\ Len(environments) < MaxEnvs
    /\ EnvAnswer("create_environment",
                 IF ~access THEN 206
                 ELSE IF EnvNameTaken(workspace_id, name, 0) THEN 400 ELSE 201)
    /\ environments' =
          IF ~access \/ EnvNameTaken(workspace_id, name, 0) THEN environments
          ELSE Append(IF is_active THEN DeactivateOthers(environments, workspace_id, 0)
                      ELSE environments,
                      [live |-> TRUE, workspace_id |-> workspace_id,
                       name |-> name, is_active |-> is_active])
    /\ UNCHANGED offEnv

\* list_environments.py:143-237; name "None" and is_active "None" are fields
\* the request leaves out
update_environment(workspace_id, environment_id, name, is_active, access) ==
    LET refused ==
            IF ~access \/ ~LiveEnv(environment_id, workspace_id) THEN 206
            ELSE IF /\ name # "None"
                    /\ name # environments[environment_id].name
                    /\ EnvNameTaken(workspace_id, name, environment_id) THEN 400
            ELSE 0
    IN  /\ EnvAnswer("update_environment", IF refused # 0 THEN refused ELSE 200)
        /\ environments' =
              IF refused # 0 THEN environments
              ELSE [(IF is_active = "True" /\ ~environments[environment_id].is_active
                     THEN DeactivateOthers(environments, workspace_id, environment_id)
                     ELSE environments)
                    EXCEPT ![environment_id] =
                        [@ EXCEPT !.name = IF name # "None" THEN name ELSE @,
                                  !.is_active = IF is_active = "None" THEN @
                                                ELSE is_active = "True"]]
        /\ UNCHANGED offEnv

\* list_environments.py:240-309
activate_environment(workspace_id, environment_id, access) ==
    /\ EnvAnswer("activate_environment",
                 IF ~access \/ ~LiveEnv(environment_id, workspace_id) THEN 206 ELSE 200)
    /\ environments' =
          IF ~access \/ ~LiveEnv(environment_id, workspace_id) THEN environments
          ELSE [DeactivateOthers(environments, workspace_id, environment_id)
                EXCEPT ![environment_id].is_active = TRUE]
    /\ UNCHANGED offEnv

\* list_environments.py:312-377
delete_environment(workspace_id, environment_id, access) ==
    /\ EnvAnswer("delete_environment",
                 IF ~access \/ ~LiveEnv(environment_id, workspace_id) THEN 206 ELSE 200)
    /\ environments' =
          IF ~access \/ ~LiveEnv(environment_id, workspace_id) THEN environments
          ELSE [environments EXCEPT ![environment_id] = DeletedEnv]
    /\ UNCHANGED offEnv

NextEnv ==
    \/ \E w \in Workspaces, name \in EnvNames, is_active \in BOOLEAN, access \in BOOLEAN :
         create_environment(w, name, is_active, access)
    \/ \E w \in Workspaces, e \in 1..MaxEnvs, name \in EnvNames \cup {"None"},
          is_active \in OptionalFlags, access \in BOOLEAN :
         update_environment(w, e, name, is_active, access)
    \/ \E w \in Workspaces, e \in 1..MaxEnvs, access \in BOOLEAN :
         activate_environment(w, e, access)
    \/ \E w \in Workspaces, e \in 1..MaxEnvs, access \in BOOLEAN :
         delete_environment(w, e, access)

SpecEnv == InitEnv /\ [][NextEnv]_vars

(***************************************************************************)
(* Nodes (routers/node).  The rows of the nodes table in insertion order:  *)
(* the id of a row is its index, parent_id 0 is NULL.  Names are left out: *)
(* whether the name of a request is taken at the target is an input of the *)
(* request (conflict).  Each request runs to its commit or rollback.       *)
(***************************************************************************)
MaxTreeRows == 2

NodeTypes == {"folder", "file"}
\* the workspaces a request may name: the two that exist and one that does not
TargetWorkspaces == Workspaces \cup {3}

NodeRow(type, workspace_id, parent_id) ==
    [type |-> type, workspace_id |-> workspace_id, parent_id |-> parent_id]

\* the tables node creation leaves: a parent is an earlier folder of the
\* same workspace (create_node validates it with validate_parent_node)
CreatedTables ==
    UNION {{t \in [1..n -> [type : NodeTypes, workspace_id : Workspaces,
                            parent_id : 0..(MaxTreeRows - 1)]] :
               \A i \in 1..n :
                   t[i].parent_id # 0 =>
                       /\ t[i].parent_id < i
                       /\ t[t[i].parent_id].type = "folder"
                       /\ t[t[i].parent_id].workspace_id = t[i].workspace_id}
           : n \in 0..MaxTreeRows}

InitTree ==
    /\ nodes \in CreatedTables
    /\ IdleRun /\ IdleCall /\ IdleStore /\ IdleExec
    /\ IdleEnv /\ IdleOtp /\ IdleCache

Resp(status, error) == [status |-> status, error |-> error]
Accepted == Resp(0, "")

NodeAnswer(endpoint, response) ==
    /\ fn' = endpoint /\ ret' = response /\ UNCHANGED arg

ParentOf(rows, node_id) ==
    IF node_id \in DOMAIN rows THEN rows[node_id].parent_id ELSE 0

\* the walk of check_circular_reference from current_parent up to the root
RECURSIVE CircularWalk(_, _, _, _)
CircularWalk(rows, node_id, current_parent, visited) ==
    IF current_parent = 0 \/ current_parent \in visited THEN FALSE
    ELSE IF current_parent = node_id THEN TRUE
    ELSE CircularWalk(rows, node_id, ParentOf(rows, current_parent),
                      visited \cup {current_parent})

\* the mutant of check_circular_reference: no move is circular
NoCircularReference(rows, node_id, new_parent_id) == FALSE

\* config.py:218-236
check_circular_reference(rows, node_id, new_parent_id) ==
    CircularWalk(rows, node_id, new_parent_id, {})

\* config.py:200-214
validate_parent_node(rows, parent_id, workspace_id) ==
    /\ parent_id \in DOMAIN rows
    /\ rows[parent_id].workspace_id = workspace_id
    /\ rows[parent_id].type = "folder"

\* update_node.py:31-66: parent_id 0 is a request without one
UpdateRefusal(node_id, parent_id, access, conflict) ==
    IF ~access \/ node_id \notin DOMAIN nodes
    THEN Resp(404, "Node not found or access denied")
    ELSE IF parent_id # 0 /\ check_circular_reference(nodes, node_id, parent_id)
    THEN Resp(400, "Cannot move node: would create circular reference")
    ELSE IF parent_id # 0 /\ ~validate_parent_node(nodes, parent_id, nodes[node_id].workspace_id)
    THEN Resp(400, "Invalid parent node or parent is not a folder")
    ELSE IF conflict
    THEN Resp(400, "A node with this name already exists in the target location")
    ELSE Accepted

\* update_node.py:22-80
update_node(node_id, parent_id, access, conflict) ==
    /\ IF UpdateRefusal(node_id, parent_id, access, conflict) # Accepted
       THEN /\ NodeAnswer("update_node", UpdateRefusal(node_id, parent_id, access, conflict))
            /\ UNCHANGED nodes
       ELSE /\ NodeAnswer("update_node", Resp(200, ""))
            /\ nodes' = IF parent_id # 0
                        THEN [nodes EXCEPT ![node_id].parent_id = parent_id]
                        ELSE nodes
    /\ UNCHANGED offNodes

\* move_node.py:25-49, copy_node.py:99-121: the checks of the target
TargetRefusal(node_id, target_workspace_id, target_folder_id) ==
    IF node_id \notin DOMAIN nodes THEN Resp(206, "Node not found")
    ELSE IF target_workspace_id \notin Workspaces
    THEN Resp(206, "Target workspace not found")
    ELSE IF /\ target_folder_id # 0
            /\ ~(target_folder_id \in DOMAIN nodes /\ nodes[target_folder_id].type = "folder")
    THEN Resp(206, "Target folder not found")
    ELSE IF /\ target_folder_id # 0
            /\ nodes[target_folder_id].workspace_id # target_workspace_id
    THEN Resp(400, "Target folder must be in the target workspace")
    ELSE Accepted

\* move_node.py:25-74; the loop of lines 67-74 walks as check_circular_reference
\* does, without a visited set
MoveRefusal(node_id, target_workspace_id, target_folder_id, conflict) ==
    IF TargetRefusal(node_id, target_workspace_id, target_folder_id) # Accepted
    THEN TargetRefusal(node_id, target_workspace_id, target_folder_id)
    ELSE IF conflict THEN Resp(409, "already exists in the target location")
    ELSE IF /\ nodes[node_id].type = "folder"
            /\ target_folder_id # 0
            /\ CircularWalk(nodes, node_id, target_folder_id, {})
    THEN Resp(400, "Cannot move a folder into itself or its descendants")
    ELSE Accepted

\* move_node.py:15-119
move_node(node_id, target_workspace_id, target_folder_id, conflict) ==
    /\ IF MoveRefusal(node_id, target_workspace_id, target_folder_id, conflict) # Accepted
       THEN /\ NodeAnswer("move_node",
                          MoveRefusal(node_id, target_workspace_id, target_folder_id, conflict))
            /\ UNCHANGED nodes
       ELSE /\ NodeAnswer("move_node", Resp(200, ""))
            /\ nodes' = [nodes EXCEPT ![node_id].workspace_id = target_workspace_id,
                                      ![node_id].parent_id = target_folder_id]
    /\ UNCHANGED offNodes

\* the depth of nested copy_node_recursive calls at which Python raises
\* RecursionError; no table of the model nests deeper than MaxTreeRows
RecursionLimit == MaxTreeRows + 1

\* select(Node).where(Node.parent_id == source_node.id), in id order
ChildrenOf(rows, source_node) ==
    SelectSeq([i \in 1..Len(rows) |-> i], LAMBDA i : rows[i].parent_id = source_node)

RECURSIVE copy_node_recursive(_, _, _, _, _)
RECURSIVE CopyChildren(_, _, _, _, _)

CopyRest(result, children, target_workspace_id, copied_node, depth) ==
    IF result.raised THEN result
    ELSE CopyChildren(result.rows, children, target_workspace_id, copied_node, depth)

\* copy_node.py:75-85: the loop over the children read after the flush
CopyChildren(rows, children, target_workspace_id, copied_node, depth) ==
    IF children = <<>> THEN [rows |-> rows, raised |-> FALSE]
    ELSE CopyRest(copy_node_recursive(rows, Head(children), target_workspace_id,
                                      copied_node, depth + 1),
                  Tail(children), target_workspace_id, copied_node, depth)

\* copy_node.py:17-87: the copy is added and flushed, then the children of
\* the source are read from the table that already holds the copy
copy_node_recursive(rows, source_node, target_workspace_id, target_parent_id, depth) ==
    IF depth > RecursionLimit THEN [rows |-> rows, raised |-> TRUE]
    ELSE IF rows[source_node].type = "file"
    THEN [rows |-> Append(rows, NodeRow("file", target_workspace_id, target_parent_id)),
          raised |-> FALSE]
    ELSE CopyChildren(
            Append(rows, NodeRow("folder", target_workspace_id, target_parent_id)),
            ChildrenOf(Append(rows, NodeRow("folder", target_workspace_id, target_parent_id)),
                       source_node),
            target_workspace_id, Len(rows) + 1, depth)

\* copy_node.py:130-141 and 196-199: commit, or rollback on an exception
CopyOutcome(result) ==
    /\ ~result.raised => Len(result.rows) <= MaxTreeRows
    /\ IF result.raised
       THEN NodeAnswer("copy_node", Resp(409, "Something went wrong")) /\ UNCHANGED nodes
       ELSE NodeAnswer("copy_node", Resp(200, "")) /\ nodes' = result.rows

\* copy_node.py:89-199
copy_node(node_id, target_workspace_id, target_folder_id) ==
    /\ IF TargetRefusal(node_id, target_workspace_id, target_folder_id) # Accepted
       THEN /\ NodeAnswer("copy_node",
                          TargetRefusal(node_id, target_workspace_id, target_folder_id))
            /\ UNCHANGED nodes
       ELSE CopyOutcome(copy_node_recursive(nodes, node_id, target_workspace_id,
                                            target_folder_id, 1))
    /\ UNCHANGED offNodes

NextTree ==
    \/ \E node_id \in 1..MaxTreeRows, parent_id \in 0..MaxTreeRows,
          access \in BOOLEAN, conflict \in BOOLEAN :
         update_node(node_id, parent_id, access, conflict)
    \/ \E node_id \in 1..MaxTreeRows, w \in TargetWorkspaces,
          target_folder_id \in 0..MaxTreeRows, conflict \in BOOLEAN :
         move_node(node_id, w, target_folder_id, conflict)
    \/ \E node_id \in 1..MaxTreeRows, w \in TargetWorkspaces,
          target_folder_id \in 0..MaxTreeRows :
         copy_node(node_id, w, target_folder_id)

SpecTree == InitTree /\ [][NextTree]_vars

(***************************************************************************)
(* Password reset (routers/sso).  The sso_otp_attempts row of one user and *)
(* the clock, in seconds.  otp 0 is NULL, NoTime is a NULL datetime.  Two  *)
(* fields of the variable are history: the submissions answered "Incorrect *)
(* OTP" since the code was generated, and the time of the one that reached *)
(* MAX_ATTEMPTS.                                                           *)
(***************************************************************************)
MAX_ATTEMPTS == 2
LOCK_DURATION == 10
OTP_EXPIRY_SECONDS == 600

ClockStep == 300
MaxClock == 1200

NoTime == 0 - 1
\* the codes generate_otp draws and a request submits
Codes == {1, 2}

NoRecord == [exists |-> FALSE, otp |-> 0, failed_attempts |-> 0,
             locked_until |-> NoTime, expire_at |-> NoTime]

InitOtp ==
    /\ otp = [now |-> 0, rec |-> NoRecord, incorrect |-> 0, lockedAt |-> NoTime]
    /\ IdleRun /\ IdleCall /\ IdleStore /\ IdleExec
    /\ IdleEnv /\ IdleNodes /\ IdleCache

\* time passes between two requests
Tick ==
    /\ otp.now < MaxClock
    /\ otp' = [otp EXCEPT !.now = @ + ClockStep]
    /\ UNCHANGED <<callVars, offOtp>>

\* the mutant of IsLocked: a lock is never seen
NeverLocked(rec, now) == FALSE

\* forget_password.py:32, otp_generation.py:65
IsLocked(rec, now) == rec.locked_until # NoTime /\ rec.locked_until > now

OtpAnswer(endpoint, status, error, verified) ==
    /\ fn' = endpoint
    /\ ret' = [status |-> status, error |-> error, verified |-> verified]
    /\ UNCHANGED arg

\* otp_generation.py:25-105: the user of the request exists and is active,
\* or not; code is what generate_otp returns
generate_otp_req(user_exists, is_active, code) ==
    /\ IF ~user_exists
       THEN OtpAnswer("generate_otp_req", 200, "", FALSE) /\ UNCHANGED otp
       ELSE IF ~is_active
       THEN OtpAnswer("generate_otp_req", 400, "Account is deactivated", FALSE)
            /\ UNCHANGED otp
       ELSE IF otp.rec.exists /\ IsLocked(otp.rec, otp.now)
       THEN OtpAnswer("generate_otp_req", 429, "Too many attempts", FALSE)
            /\ UNCHANGED otp
       ELSE /\ OtpAnswer("generate_otp_req", 200, "OTP has been sent", FALSE)
            /\ otp' = [otp EXCEPT
                         !.rec = [exists |-> TRUE, otp |-> code, failed_attempts |-> 0,
                                  locked_until |-> NoTime,
                                  expire_at |-> otp.now + OTP_EXPIRY_SECONDS],
                         !.incorrect = 0,
                         !.lockedAt = NoTime]
    /\ UNCHANGED offOtp

\* forget_password.py:24-54: what the call raises, "" when it returns
VerifyDetail(rec, now, code) ==
    IF ~rec.exists \/ rec.otp = 0 THEN "OTP not found for this user"
    ELSE IF rec.expire_at # NoTime /\ rec.expire_at < now THEN "OTP is expired"
    ELSE IF IsLocked(rec, now) THEN "User is locked"
    ELSE IF rec.failed_attempts >= MAX_ATTEMPTS THEN "Please genrate new OTP"
    ELSE IF rec.otp # code THEN "Incorrect OTP"
    ELSE ""

VerifyStatus(detail) ==
    IF detail \in {"User is locked", "Please genrate new OTP"} THEN 403 ELSE 400

\* forget_password.py:35-54: the row the call leaves; the two raising
\* branches commit it, the returning one flushes it
verify_and_consume_otp(rec, now, code) ==
    IF VerifyDetail(rec, now, code) = "Please genrate new OTP"
    THEN [rec EXCEPT !.failed_attempts = 0, !.otp = 0]
    ELSE IF VerifyDetail(rec, now, code) = "Incorrect OTP"
    THEN [rec EXCEPT !.failed_attempts = @ + 1,
                     !.locked_until = IF rec.failed_attempts + 1 = MAX_ATTEMPTS
                                      THEN now + LOCK_DURATION * 60 ELSE @]
    ELSE IF VerifyDetail(rec, now, code) = ""
    THEN [rec EXCEPT !.failed_attempts = 0, !.otp = 0]
    ELSE rec

\* what forgot_password answers after the code was verified, and whether it
\* commits (forget_password.py:113-133); blacklist_token finds no row here
ForgotTails == {"mismatch", "no user", "inactive", "ok"}
TailStatus(tail) ==
    IF tail = "mismatch" THEN 400 ELSE IF tail = "ok" THEN 200 ELSE 401

\* forget_password.py:106-138
forgot_password(code, tail) ==
    /\ IF VerifyDetail(otp.rec, otp.now, code) # ""
       THEN /\ OtpAnswer("forgot_password",
                         VerifyStatus(VerifyDetail(otp.rec, otp.now, code)),
                         VerifyDetail(otp.rec, otp.now, code), FALSE)
            /\ otp' = [otp EXCEPT
                         !.rec = verify_and_consume_otp(otp.rec, otp.now, code),
                         !.incorrect =
                            IF VerifyDetail(otp.rec, otp.now, code) = "Incorrect OTP"
                            THEN @ + 1 ELSE @,
                         !.lockedAt =
                            IF /\ VerifyDetail(otp.rec, otp.now, code) = "Incorrect OTP"
                               /\ otp.incorrect + 1 = MAX_ATTEMPTS
                            THEN otp.now ELSE @]
       ELSE /\ OtpAnswer("forgot_password", TailStatus(tail), tail, TRUE)
            /\ otp' = IF tail = "ok"
                      THEN [otp EXCEPT !.rec = verify_and_consume_otp(otp.rec, otp.now, code)]
                      ELSE otp
    /\ UNCHANGED offOtp

NextOtp ==
    \/ Tick
    \/ \E user_exists \in BOOLEAN, is_active \in BOOLEAN, code \in Codes :
         generate_otp_req(user_exists, is_active, code)
    \/ \E code \in Codes, tail \in ForgotTails : forgot_password(code, tail)

SpecOtp == InitOtp /\ [][NextOtp]_vars

(***************************************************************************)
(* Sessions (routers/sso, security.py).  The rows of the sso_cache table;  *)
(* a token is a string of one piece, an Authorization header is the token  *)
(* or the piece "Bearer " followed by it.  The variable also keeps, as     *)
(* history, the tokens for which logout_user answered 200.                 *)
(***************************************************************************)
Users == {"ann", "bob"}
\* the JWTs sign_in can issue, with the username of their payload
IssuedFor == [ann |-> {"ann.1", "ann.2"}, bob |-> {"bob.1"}]
Tokens == UNION {IssuedFor[u] : u \in Users}
PayloadUser(token) == CHOOSE u \in Users : token \in IssuedFor[u]

\* the Authorization headers of the requests: raw, prefixed, not a JWT, empty
AuthHeaders ==
    {<<t>> : t \in Tokens} \cup {<<"Bearer ", t>> : t \in Tokens} \cup {<<"junk">>, <<>>}

InitCache ==
    /\ cache = [rows |-> {}, loggedOut |-> {}]
    /\ IdleRun /\ IdleCall /\ IdleStore /\ IdleExec
    /\ IdleEnv /\ IdleNodes /\ IdleOtp

CacheAnswer(endpoint, status) ==
    /\ fn' = endpoint /\ ret' = status /\ UNCHANGED arg

\* login.py:25-63: a new token of the user is cached, not blacklisted
sign_in(user, password_ok, token) ==
    /\ token \in IssuedFor[user]
    /\ \A r \in cache.rows : r.token # <<token>>
    /\ IF ~password_ok
       THEN CacheAnswer("sign_in", 401) /\ UNCHANGED cache
       ELSE /\ CacheAnswer("sign_in", 200)
            /\ cache' = [cache EXCEPT !.rows = @ \cup
                            {[username |-> user, token |-> <<token>>, black_list |-> FALSE]}]
    /\ UNCHANGED offCache

\* security.py:35-36: token.startswith("Bearer ") and token.replace("Bearer ", "")
StripBearer(token) ==
    IF token # <<>> /\ Head(token) = "Bearer "
    THEN SelectSeq(token, LAMBDA piece : piece # "Bearer ")
    ELSE token

\* jwt.decode: the token is one piece, a JWT signed by sign_in
Decodes(token) == Len(token) = 1 /\ token[1] \in Tokens

\* security.py:19-68: the username, or "" for False and None
authenticate_token(rows, username, authorization) ==
    IF authorization = <<>> \/ username = "" THEN ""
    ELSE IF ~Decodes(StripBearer(authorization)) THEN ""
    ELSE IF PayloadUser(StripBearer(authorization)[1]) # username THEN ""
    ELSE IF \E r \in rows : /\ r.username = username
                            /\ r.token = StripBearer(authorization)
                            /\ ~r.black_list
    THEN username
    ELSE ""

\* utils.py:117-145: the rows of the user that hold the token as it was
\* passed are blacklisted, all rows of the user when the token is empty
blacklist_token(rows, username, token) ==
    {IF r.username = username /\ (token = <<>> \/ r.token = token)
     THEN [r EXCEPT !.black_list = TRUE] ELSE r : r \in rows}

\* security.py:96-118 and logout.py:8-21: the middleware authenticates the
\* request, then logout_user blacklists the Authorization header
logout_user(username, authorization) ==
    /\ IF authenticate_token(cache.rows, username, authorization) = ""
       THEN CacheAnswer("logout_user", 401) /\ UNCHANGED cache
       ELSE /\ CacheAnswer("logout_user", 200)
            /\ cache' = [rows |-> blacklist_token(cache.rows, username, authorization),
                         loggedOut |-> cache.loggedOut \cup {StripBearer(authorization)}]
    /\ UNCHANGED offCache

\* security.py:96-118: any other protected request passes the middleware or
\* is answered 401
protected_request(username, authorization) ==
    /\ CacheAnswer("protected_request",
                   IF authenticate_token(cache.rows, username, authorization) = ""
                   THEN 401 ELSE 200)
    /\ UNCHANGED cache
    /\ UNCHANGED offCache

NextCache ==
    \/ \E user \in Users, password_ok \in BOOLEAN, token \in Tokens :
         sign_in(user, password_ok, token)
    \/ \E username \in Users, authorization \in AuthHeaders :
         logout_user(username, authorization)
    \/ \E username \in Users, authorization \in AuthHeaders :
         protected_request(username, authorization)

SpecCache == InitCache /\ [][NextCache]_vars

(***************************************************************************)
(* A spec from authoring to run: the endpoints validate `expected` when a  *)
(* case is saved (validate_expected_spec), the runner evaluates it on the  *)
(* response (evaluate_expect).  The drawn specs are checked by both.       *)
(***************************************************************************)
\* the paths of the drawn checks: a key, an index, and two with a "#"
AcceptPaths == {<<"a">>, <<"a", "[", "0", "]">>, <<"a", ".", "#">>, <<"#", "x">>}

AcceptChecks ==
    {Check(p, "equals", JNum(1)) : p \in AcceptPaths}
    \cup {Check(p, "present", JBool(TRUE)) : p \in AcceptPaths}

AcceptJsonBlocks ==
    {MISSING, JObj(<<>>)} \cup {JObj(K("checks") :> JArr(<<c>>)) : c \in AcceptChecks}

\* the drawn specs; a status of 99 is refused by the validator
AcceptExpects ==
    {Item("status", s) @@ Item("json", j) @@ Item("_require_content_for_error", f) :
        s \in {MISSING, JNum(200), JNum(99)},
        j \in AcceptJsonBlocks,
        f \in {MISSING, JBool(FALSE)}}

AcceptResponses ==
    {[status_code |-> s, text |-> <<"o", "k">>, json |-> b, headers |-> <<>>] :
        s \in {200, 404},
        b \in {NotJson, JNull, JObj(K("a") :> JNum(1)), JObj(K("a") :> JArr(<<JNum(1)>>)),
               JArr(<<JNum(1), JNum(2)>>)}}

InitAccept ==
    /\ fn = "none"
    /\ arg \in [resp : AcceptResponses, expect : AcceptExpects]
    /\ ret = <<>>
    /\ InitOffCall

\* the spec is validated as the endpoints do, then evaluated as the runner does
CallValidateThenEvaluate ==
    /\ fn = "none"
    /\ fn' = "evaluate_expect"
    /\ ret' = [valid |-> validate_expected_spec(JObj(arg.expect)),
               outcome |-> evaluate_expect(arg.resp, arg.expect)]
    /\ UNCHANGED <<arg, offCall>>

NextAccept == CallValidateThenEvaluate
SpecAccept == InitAccept /\ [][NextAccept]_vars

----
\* C1: a run whose case raises a transport error or has an unsupported method
\* still returns, with one result per submitted case and the failing case ok=false
C1_RunReturnsOneResultPerCase ==
    (mode = "direct" /\ top.st # "running") =>
        /\ top.st = "returned"
        /\ Len(top.flat) = ncases
        /\ \A c \in CasesOf(1) :
             cs[1][c].method \notin SupportedMethods => ~top.flat[c].ok

\* C2: the number of requests issued and not yet answered never exceeds the
\* concurrency of the run
C2_InFlightAtMostConcurrency == InFlight <= conc

\* the matching C4 describes: objects by subset, arrays by a one-to-one
\* assignment of the expected elements to distinct actual elements, scalars
\* by equality
RECURSIVE Matches(_, _)
Matches(expected, actual) ==
    IF IsDict(expected) /\ IsDict(actual)
    THEN \A k \in DOMAIN Val(expected) :
             k \in DOMAIN Val(actual) /\ Matches(Val(expected)[k], Val(actual)[k])
    ELSE IF IsList(expected) /\ IsList(actual)
    THEN \E f \in [1..Len(Val(expected)) -> 1..Len(Val(actual))] :
             /\ \A i, j \in DOMAIN f : f[i] = f[j] => i = j
             /\ \A i \in DOMAIN f : Matches(Val(expected)[i], Val(actual)[f[i]])
    ELSE PyEq(expected, actual)

\* C4: a contains check on two arrays passes exactly when the expected
\* elements can be assigned one-to-one to matching actual elements, and
\* permuting either array does not change the outcome
C4_ContainsIsOneToOneAssignment ==
    /\ fn = "_contains" => ret[1] = Matches(JArr(arg.expected), JArr(arg.actual))
    /\ fn = "_contains permuted" => ret[2] = ret[1]

\* the failures an evaluation returned, and those of one kind
Failures == IF IsRaised(ret) THEN <<>> ELSE Val(ret)[2]
FailuresOf(kind) == SelectSeq(Failures, LAMBDA f : f[1] = kind)

\* every check of a spec, those of the either branches included
RECURSIVE BranchChecks(_)
BranchChecks(branches) ==
    IF branches = <<>> THEN <<>>
    ELSE ListOrEmpty(Val(Head(branches)), K("checks")) \o BranchChecks(Tail(branches))
AllChecks(expect) ==
    LET jexp == DictOrEmpty(expect, K("json"))
    IN  ListOrEmpty(jexp, K("checks")) \o BranchChecks(ListOrEmpty(jexp, K("either")))

\* the case of C3: the body is an object whose response_code differs from
\* the HTTP status, mirroring is not switched off, and no check names the
\* path response_code
MirrorCase ==
    /\ fn = "evaluate_expect"
    /\ IsDict(arg.resp.json)
    /\ K("response_code") \in DOMAIN Val(arg.resp.json)
    /\ ~PyEq(Val(arg.resp.json)[K("response_code")], JNum(arg.resp.status_code))
    /\ Get(arg.expect, K("_mirror_http_status"), JBool(TRUE)) = JBool(TRUE)
    /\ \A i \in 1..Len(AllChecks(arg.expect)) :
         Val(AllChecks(arg.expect)[i])[K("path")] # JStr(K("response_code"))

\* C3: a body whose response_code differs from the HTTP status fails the
\* evaluation with a mirror-mismatch entry, whether or not the spec has a
\* json block
C3_MirrorMismatchFails ==
    MirrorCase =>
        /\ ~IsRaised(ret)
        /\ Val(ret)[1] = FALSE
        /\ FailuresOf("json.response_code") # <<>>

\* the branches of the either block of the spec evaluated, and the outcome
\* of the checks of one branch on the parsed body
EitherBranches == ListOrEmpty(DictOrEmpty(arg.expect, K("json")), K("either"))
BranchOutcome(b) ==
    ApplyChecks(arg.resp.json, ListOrEmpty(Val(EitherBranches[b]), K("checks")))

\* the case of C5: the spec evaluated has an either block and the body parsed
EitherCase ==
    /\ fn = "evaluate_expect"
    /\ EitherBranches # <<>>
    /\ arg.resp.json # NotJson

\* C5: an either block adds no failure exactly when some branch has all its
\* checks pass; when none passes it adds one json.either failure that carries
\* the reasons of every branch
C5_EitherPassesIffSomeBranchPasses ==
    EitherCase =>
        /\ FailuresOf("json.either") = <<>>
              <=> \E b \in DOMAIN EitherBranches : BranchOutcome(b) = Ok(<<>>)
        /\ (\A b \in DOMAIN EitherBranches : BranchOutcome(b) # Ok(<<>>)) =>
              FailuresOf("json.either") =
                  <<Fail("json.either", [b \in DOMAIN EitherBranches |-> Val(BranchOutcome(b))])>>

\* C7: validate_expected_spec returns a pair (ok, errors) for every input and
\* never raises, and ok is true exactly when errors is empty
C7_ValidateIsTotal ==
    fn = "validate_expected_spec" =>
        /\ ~IsRaised(ret)
        /\ Val(ret)[1] = (Val(ret)[2] = <<>>)

Attempts == ex.attempts
LastAttempt == Attempts[Len(Attempts)]

\* the case of C8: the first candidate raised a connection error and a
\* later candidate returned a response
FallbackAnswered ==
    /\ ex.pc = "done"
    /\ Len(Attempts) >= 2
    /\ Attempts[1].outcome = "ConnectError"
    /\ LastAttempt.outcome = "response"

\* C8: when the first candidate raises a connection error and a later one
\* answers, the result records the URL of the candidate that answered, and
\* its status code and body are those of that candidate's response
C8_ResultRecordsAnsweringUrl ==
    FallbackAnswered =>
        /\ ex.result.kind = "response"
        /\ ex.result.resolved_url = LastAttempt.url
        /\ ex.result.status_code = LastAttempt.status
        /\ ex.result.text = <<"from">> \o LastAttempt.url

HasPlaceholder(text, name) ==
    \E i \in 1..(Len(text) - 4) : SubSeq(text, i, i + 4) = <<"{", "{">> \o name \o <<"}", "}">>

\* `{{name}}` occurs in a str of a JSON value
RECURSIVE OccursIn(_, _)
OccursIn(value, name) ==
    IF IsStr(value) THEN HasPlaceholder(Val(value), name)
    ELSE IF IsDict(value) THEN \E k \in DOMAIN Val(value) : OccursIn(Val(value)[k], name)
    ELSE IF IsList(value) THEN \E i \in DOMAIN Val(value) : OccursIn(Val(value)[i], name)
    ELSE FALSE

\* C10: in a request that is dispatched no `{{name}}` of a name of the
\* variable map remains in the URL with its query parameters, in a final
\* header value (of the folder or of the request) or in the body
C10_NoPlaceholderInDispatchedRequest ==
    \A i \in DOMAIN ex.attempts : \A name \in DOMAIN ex.variables :
        /\ ~HasPlaceholder(Attempts[i].url, name)
        /\ \A h \in DOMAIN Attempts[i].request.headers :
               ~OccursIn(Attempts[i].request.headers[h], name)
        /\ ~OccursIn(Attempts[i].request.body, name)

\* the headers a level defines, none when the level has no headers
LevelHeaders(level) == IF level = JNull THEN <<>> ELSE Val(level)

\* the value precedence gives to a key: the case's, else the API or request
\* level's, else the folder's
PrecedenceValue(key) ==
    IF key \in DOMAIN LevelHeaders(arg.case) THEN LevelHeaders(arg.case)[key]
    ELSE IF key \in DOMAIN LevelHeaders(arg.api) THEN LevelHeaders(arg.api)[key]
    ELSE arg.folder[key]

\* C11: for every header key the final headers hold the case's value if the
\* case defines the key, else the API or request level's value, else the
\* folder's; a key that no level defines is absent
C11_HeadersFollowPrecedence ==
    fn \in {"get_test_case_details", "_run_case", "execute_api_direct"} =>
        /\ DOMAIN ret[1] = DOMAIN LevelHeaders(arg.case) \cup DOMAIN LevelHeaders(arg.api)
                              \cup DOMAIN arg.folder
        /\ \A key \in DOMAIN ret[1] : ret[1][key] = PrecedenceValue(key)

\* C11 at the one place that has all three levels and merges them key by key
C11_CaseDetailsFollowPrecedence ==
    fn = "get_test_case_details" =>
        /\ DOMAIN ret[1] = DOMAIN LevelHeaders(arg.case) \cup DOMAIN LevelHeaders(arg.api)
                              \cup DOMAIN arg.folder
        /\ \A key \in DOMAIN ret[1] : ret[1][key] = PrecedenceValue(key)

\* the names of the placeholders of a text, as utils.py matches them
RECURSIVE PlaceholderNames(_)
RECURSIVE PlaceholderNamesAt(_, _)
PlaceholderNamesAt(end, text) ==
    IF end = 0 THEN PlaceholderNames(Tail(text))
    ELSE {Strip(SubSeq(text, 3, end - 2))} \cup PlaceholderNames(SubSeq(text, end + 1, Len(text)))
PlaceholderNames(text) ==
    IF text = <<>> THEN {} ELSE PlaceholderNamesAt(MatchEnd(text), text)

\* the texts inside a template of this model
TextsOf(template) ==
    CASE IsStr(template) -> {Val(template)}
      [] IsDict(template) -> {Val(Val(template)[k]) : k \in {q \in DOMAIN Val(template) : IsStr(Val(template)[q])}}
      [] IsList(template) -> {Val(Val(template)[i]) : i \in {q \in DOMAIN Val(template) : IsStr(Val(template)[q])}}

\* every placeholder of the template names a variable of the map
FullyResolvable ==
    \A t \in TextsOf(arg.template) : PlaceholderNames(t) \subseteq DOMAIN arg.variables

\* C12: resolving a fully resolvable template twice with the same variable
\* map gives what resolving it once gives
C12_ResolutionIsIdempotent ==
    (fn = "replace_variables again" /\ FullyResolvable) => ret[2] = ret[1]

\* the text in which exactly the placeholders `{{identifier}}` whose
\* identifier is a key of the map are replaced, each by the str of its value
StringifiedPieces(pieces) == [i \in DOMAIN pieces |-> JStr(PyStr(pieces[i]))]
IdentifierResolution(text, variables) ==
    JStr(JoinPieces(StringifiedPieces(ResolvePieces(text, variables))))

\* C13: on every text and variable map both resolvers replace exactly the
\* `{{identifier}}` placeholders whose identifier is a key of the map by the
\* stringified value and return the rest unchanged, so that they agree
C13_ResolversReplaceIdentifierPlaceholders ==
    (fn \in {"replace_variables", "resolve_variables_in_text"} /\ IsStr(arg.template)) =>
        ret[1] = IdentifierResolution(Val(arg.template), arg.variables)

\* the one JSON kind of a value: a number is an int or a float, not a bool
JsonKind(v) ==
    CASE Kind(v) = "str" -> <<"string">>
      [] Kind(v) \in {"num", "float"} -> <<"number">>
      [] Kind(v) = "bool" -> <<"boolean">>
      [] Kind(v) = "obj" -> <<"object">>
      [] Kind(v) = "arr" -> <<"array">>
      [] Kind(v) = "null" -> <<"null">>

\* the kinds a `type` predicate lists
ListedKinds(t) == IF IsList(t) THEN {Val(Val(t)[i]) : i \in DOMAIN Val(t)} ELSE {Val(t)}

\* the value the path of the drawn check resolves to, and whether the
\* check goes on to its predicates
CheckedValue == _resolve_path(arg.body, Val(arg.chk[K("path")]))
FlagSet(flag) == Truthy(Get(arg.chk, K(flag), JNull))
HasFailure(outcome, kind) == \E i \in DOMAIN Val(outcome) : Val(outcome)[i][1] = kind

\* C14: a `type` predicate passes exactly when the path resolves to a value
\* whose one JSON kind is among the listed kinds
C14_TypePassesIffKindListed ==
    (/\ fn = "_apply_check"
     /\ K("type") \in DOMAIN arg.chk
     /\ ~FlagSet("absent") /\ ~FlagSet("present")
     /\ ~IsRaised(ret[1]))
    => (~HasFailure(ret[1], "type")
            <=> (CheckedValue # MISSING
                   /\ JsonKind(CheckedValue) \in ListedKinds(arg.chk[K("type")])))

\* C15: with `absent: true` a failure is recorded exactly when the path
\* resolves to a value, null included; with `present: true` and no
\* `absent: true`, exactly when the path is missing; and no other predicate
\* of the check is evaluated
C15_PresentAbsentShortCircuit ==
    (fn = "_apply_check" /\ ~IsRaised(CheckedValue)) =>
        /\ FlagSet("absent") =>
             ret[1] = Ok(IF CheckedValue # MISSING
                         THEN <<Fail("absent", Val(arg.chk[K("path")]))>> ELSE <<>>)
        /\ (FlagSet("present") /\ ~FlagSet("absent")) =>
             ret[1] = Ok(IF CheckedValue = MISSING
                         THEN <<Fail("present", Val(arg.chk[K("path")]))>> ELSE <<>>)

\* `absent: true` on a field that is null, with an `equals` that null fails:
\* the one failure is the absent one
C15_AbsentOnNullWithEquals ==
    /\ fn = "_apply_check"
    /\ FlagSet("absent") /\ K("equals") \in DOMAIN arg.chk
    /\ CheckedValue = JNull
    /\ ret[1] = Ok(<<Fail("absent", <<"n">>)>>)

\* `present: true` on a field that is there, with an `equals` it fails: no
\* failure
C15_PresentWithFailingEquals ==
    /\ fn = "_apply_check"
    /\ FlagSet("present") /\ ~FlagSet("absent")
    /\ arg.chk[K("path")] = JStr(<<"n">>)
    /\ K("equals") \in DOMAIN arg.chk
    /\ CheckedValue = JBool(TRUE)
    /\ ret[1] = Ok(<<>>)

\* a path that is one key, a key that starts with "#"
IsOneKey(path) == Len(path) = 2 /\ path[1] = "#"

\* C16: _resolve_path never raises; it follows the keys and indexes of the
\* path and returns the missing sentinel when a key is absent or applied to
\* a value that is not an object
C16_ResolvePathNeverRaises ==
    fn = "_resolve_path" =>
        /\ ~IsRaised(ret[1])
        /\ IsOneKey(Val(arg.chk[K("path")])) =>
             ret[1] = (IF IsDict(arg.body) /\ Val(arg.chk[K("path")]) \in DOMAIN Val(arg.body)
                       THEN Val(arg.body)[Val(arg.chk[K("path")])] ELSE MISSING)

\* the checks of the json block of the spec evaluated, and the outcome of
\* one of them alone on the parsed body
JsonChecks == ListOrEmpty(DictOrEmpty(arg.expect, K("json")), K("checks"))
CheckOutcome(i) == _apply_check(arg.resp.json, Val(JsonChecks[i]))
Recorded(f) == \E i \in DOMAIN Failures : Failures[i] = f

\* C17: evaluate_expect collects every mismatch: a failing status, each
\* failing text needle, each failing expected header and, for a body that
\* parses as JSON, each failing predicate of each check of json.checks add
\* their own failure; a body that is not JSON adds exactly one decode
\* failure when a json block is given; a failure of one section does not
\* keep a later section from being evaluated
C17_EveryMismatchIsCollected ==
    fn = "evaluate_expect" =>
        /\ ~IsRaised(ret)
        /\ Recorded(Fail("status", <<>>))
              <=> (K("status") \in DOMAIN arg.expect
                     /\ arg.expect[K("status")] # JNum(arg.resp.status_code))
        /\ K("text_contains") \in DOMAIN arg.expect =>
              \A i \in DOMAIN AsList(arg.expect[K("text_contains")]) :
                  ~IsSubstring(Val(AsList(arg.expect[K("text_contains")])[i]), arg.resp.text)
                      => Recorded(Fail("text_contains", Val(AsList(arg.expect[K("text_contains")])[i])))
        /\ \A hk \in DOMAIN DictOrEmpty(arg.expect, K("headers")) :
              Lower(hk) \notin DOMAIN arg.resp.headers => Recorded(Fail("header missing", hk))
        /\ (K("json") \in DOMAIN arg.expect /\ arg.resp.json # NotJson) =>
              \A i \in DOMAIN JsonChecks : \A k \in DOMAIN Val(CheckOutcome(i)) :
                  Recorded(Val(CheckOutcome(i))[k])
        /\ (K("json") \in DOMAIN arg.expect /\ arg.resp.json = NotJson) =>
              Len(FailuresOf("json")) = 1

\* the guidance failure of an error response without a content assertion
GuidanceFailure == Fail("error response without content assertion", <<>>)
RequiresContent ==
    Get(arg.expect, K("_require_content_for_error"), JBool(TRUE)) = JBool(TRUE)
AssertsContent ==
    DOMAIN arg.expect \cap {K("text_contains"), K("text_contains_any"), K("text_regex"), K("json")} # {}
IsErrorStatus == 400 <= arg.resp.status_code /\ arg.resp.status_code <= 599

\* C18: a response with a status in 400..599 fails with the guidance
\* failure when _require_content_for_error is unset or true and the spec has
\* no text or json assertion; the failure is never added when the flag is
\* false, the status is below 400, or the spec has a text or json block
C18_ErrorResponseRequiresContent ==
    fn = "evaluate_expect" =>
        /\ (IsErrorStatus /\ RequiresContent /\ ~AssertsContent) =>
              /\ ~IsRaised(ret)
              /\ Val(ret)[1] = FALSE
              /\ Recorded(GuidanceFailure)
        /\ (~RequiresContent \/ arg.resp.status_code < 400 \/ AssertsContent) =>
              ~Recorded(GuidanceFailure)

\* a 404 judged by a spec that asserts its status and nothing else, the
\* flag unset: the one failure is the guidance
C18_StatusOnlySpecFailsOn404 ==
    /\ fn = "evaluate_expect"
    /\ arg.resp.status_code = 404
    /\ DOMAIN arg.expect = {K("status")}
    /\ ~IsRaised(ret)
    /\ Failures = <<Fail("status", <<>>), GuidanceFailure>>

\* a bucket with its failing cases first and, among the failing and among
\* the passing, in the order of the case names
FailuresFirstThenName(bucket) ==
    \A i, j \in DOMAIN bucket : i < j =>
        /\ bucket[i].ok => bucket[j].ok
        /\ bucket[i].ok = bucket[j].ok => ~StrLess(bucket[j].case, bucket[i].case)

\* C19: in the report of run_tests and in the report _merge_flat rebuilds,
\* every by_api bucket and every file's case list has the failing cases
\* first and each group in the order of the case names
C19_BucketsFailuresFirstThenName ==
    fn \in {"run_tests", "_merge_flat"} =>
        /\ \A sig \in DOMAIN ret[1].by_api : FailuresFirstThenName(ret[1].by_api[sig])
        /\ \A parts \in DOMAIN ret[1].by_folder :
              FailuresFirstThenName(ret[1].by_folder[parts].cases)

\* C19 for the report of run_tests alone
C19_RunTestsBucketsSorted ==
    fn = "run_tests" =>
        /\ \A sig \in DOMAIN ret[1].by_api : FailuresFirstThenName(ret[1].by_api[sig])
        /\ \A parts \in DOMAIN ret[1].by_folder :
              FailuresFirstThenName(ret[1].by_folder[parts].cases)

\* the nodes on the path from the root to the drawn node, the number of
\* ancestors of a node, and the nodes of the path that define a key
RECURSIVE AncestorsAndSelf(_)
AncestorsAndSelf(n) == IF n = 0 THEN {} ELSE {n} \cup AncestorsAndSelf(arg.parent[n])
Depth(n) == Cardinality(AncestorsAndSelf(n))
Definers(key) ==
    {n \in AncestorsAndSelf(arg.folder_id) :
        n \in DOMAIN arg.headers_map /\ key \in DOMAIN arg.headers_map[n]}
DeepestDefiner(key) ==
    CHOOSE n \in Definers(key) : \A m \in Definers(key) : Depth(m) <= Depth(n)

\* C20: the complete headers of a node hold, for each key some node of its
\* path from the root defines, the value of the deepest such node, and no
\* other key; a path without headers gives an empty map
C20_DeepestFolderWins ==
    fn = "get_headers" =>
        /\ DOMAIN ret[1] = {key \in HeaderKeys : Definers(key) # {}}
        /\ \A key \in DOMAIN ret[1] : ret[1][key] = arg.headers_map[DeepestDefiner(key)][key]

\* a node below two ancestors: one key set by the root and again by the
\* node's parent, the other set by the root alone
C20_OverriddenAndCarriedThrough ==
    /\ fn = "get_headers"
    /\ arg.folder_id = 3 /\ arg.parent[3] = 2 /\ arg.parent[2] = 1
    /\ Definers(K("Authorization")) = {1, 2}
    /\ Definers(K("X-Trace")) = {1}
    /\ ret[1] = (K("Authorization") :> JStr(<<"of", "2">>) @@ K("X-Trace") :> JStr(<<"of", "1">>))


\* C21: _run_for_files sends requests only for the cases of the given files:
\* in a selective run no request is ever sent for a same-named case of another
\* file of the service (every case of a call but the target's own, case 1).
C21_OnlyCasesOfGivenFilesAreSent ==
    mode = "selective" =>
        \A k \in Calls, c \in Cases :
            c # 1 => cs[k][c].st \notin {"inflight", "done", "raised"}


\* the row update_test_case is specified to leave: the supplied fields take
\* the request's values, the others keep the stored ones
SuppliedFieldsOnly(row, request) ==
    [name |-> IF request.name # NoName THEN request.name ELSE row.name,
     expected |-> IF request.expected # None THEN request.expected ELSE row.expected]

\* C22: update_test_case on an existing case, with any subset of its fields
\* supplied and any supplied `expected` well-formed, is answered 200 (or 206
\* when access is denied); on 200 exactly the supplied fields of the case
\* change, every other row and field is left as stored.
C22_UpdateChangesExactlySuppliedFields ==
    [][(/\ fn' = "update_test_case"
        /\ arg'.case_id \in DOMAIN cases
        /\ (arg'.expected = None \/ ~Rejected(arg'.expected)))
       => /\ ret' \in {200, 206}
          /\ ret' = 206 => cases' = cases
          /\ ret' = 200 =>
                cases' = [cases EXCEPT ![arg'.case_id] = SuppliedFieldsOnly(@, arg')]]_vars


ActiveEnvs(workspace_id) ==
    {i \in DOMAIN environments :
        /\ environments[i].live
        /\ environments[i].workspace_id = workspace_id
        /\ environments[i].is_active}

\* C23: after any sequence of create_environment, update_environment,
\* activate_environment and delete_environment calls, every workspace has at
\* most one environment with is_active = true.
C23_AtMostOneActivePerWorkspace ==
    \A w \in Workspaces : Cardinality(ActiveEnvs(w)) <= 1

\* an environment was activated while another of its workspace was active,
\* and the other one is not active any more
C23_ActivationTookOver ==
    /\ fn \in {"activate_environment", "update_environment", "create_environment"}
    /\ ret \in {200, 201}
    /\ \E i, j \in DOMAIN environments :
          /\ i # j
          /\ environments[i].live /\ environments[j].live
          /\ environments[i].workspace_id = environments[j].workspace_id
          /\ environments[i].is_active /\ ~environments[j].is_active


\* C24: after any sequence of update_node, move_node and copy_node requests
\* every node with a parent has the workspace_id of its parent.
C24_ChildInWorkspaceOfParent ==
    \A i \in DOMAIN nodes :
        nodes[i].parent_id # 0 =>
            nodes[nodes[i].parent_id].workspace_id = nodes[i].workspace_id


\* the nodes of the subtree of node_id: node_id and its descendants
Subtree(rows, node_id) ==
    {i \in DOMAIN rows : CircularWalk(rows, node_id, i, {})}

Acyclic(rows) ==
    \A i \in DOMAIN rows : ~CircularWalk(rows, i, rows[i].parent_id, {})

\* the request puts node_id under target
MovesUnder(node_id, target) ==
    \/ \E access \in BOOLEAN, conflict \in BOOLEAN :
         update_node(node_id, target, access, conflict)
    \/ \E w \in TargetWorkspaces, conflict \in BOOLEAN :
         move_node(node_id, w, target, conflict)

\* C25: after any sequence of update_node and move_node requests (and
\* copy_node ones) the parent relation of the table is acyclic, and a request
\* to put a node under itself or one of its descendants is refused and
\* leaves the table as it was: no request that is answered 200 or changes
\* the table is such a request.
C25_ParentRelationStaysAcyclic ==
    [][/\ Acyclic(nodes')
       /\ (ret'.status = 200 \/ nodes' # nodes) =>
             \A node_id \in DOMAIN nodes : \A target \in Subtree(nodes, node_id) :
                 ~MovesUnder(node_id, target)]_vars

\* a request to put a folder under its own child was refused as circular
C25_CircularMoveRefused ==
    /\ fn \in {"update_node", "move_node"}
    /\ ret \in {Resp(400, "Cannot move node: would create circular reference"),
                Resp(400, "Cannot move a folder into itself or its descendants")}
    /\ \E i, j \in DOMAIN nodes : i # j /\ nodes[j].parent_id = i

\* C26: copy_node ends for every source and target folder it accepts, also a
\* target inside the source subtree, answers 200 and has added exactly one
\* copy of each node the source subtree had when the copy started.
C26_CopyEndsWithOneCopyOfEachNode ==
    [][\A node_id \in DOMAIN nodes, w \in Workspaces, target \in 0..MaxTreeRows :
          (/\ copy_node(node_id, w, target)
           /\ TargetRefusal(node_id, w, target) = Accepted)
          => /\ ret'.status = 200
             /\ Len(nodes') = Len(nodes) + Cardinality(Subtree(nodes, node_id))]_vars


\* C27: once MAX_ATTEMPTS submissions of a wrong code were answered
\* "Incorrect OTP", no later submission is verified, whatever code it
\* carries, until a new code is generated; and send-otp generates no new code
\* while the lock of the last of these submissions has not expired.
C27_SpentCodeIsUnusable ==
    [][/\ \A code \in Codes, tail \in ForgotTails :
            forgot_password(code, tail) /\ ret'.verified
                => otp.incorrect < MAX_ATTEMPTS
       /\ \A user_exists \in BOOLEAN, is_active \in BOOLEAN, code \in Codes :
            generate_otp_req(user_exists, is_active, code) /\ ret'.error = "OTP has been sent"
                => \/ otp.lockedAt = NoTime
                   \/ otp.now >= otp.lockedAt + LOCK_DURATION * 60]_vars

\* a code submitted after MAX_ATTEMPTS wrong ones, once the lock had expired
\* and before the code did, was refused and the stored code cleared
C27_RefusedAfterLockExpired ==
    /\ fn = "forgot_password"
    /\ ret.error = "Please genrate new OTP"
    /\ otp.incorrect = MAX_ATTEMPTS
    /\ otp.rec.otp = 0
    /\ otp.now >= otp.lockedAt + LOCK_DURATION * 60

\* send-otp was refused while the lock was on
C27_SendRefusedWhileLocked ==
    /\ fn = "generate_otp_req"
    /\ ret.status = 429
    /\ otp.incorrect = MAX_ATTEMPTS
    /\ otp.now < otp.lockedAt + LOCK_DURATION * 60


\* C28: once logout_user answered 200 for a token, every later request that
\* carries the token, raw or behind the Bearer prefix, is rejected by
\* authenticate_token.
C28_LoggedOutTokenIsRejected ==
    [][\A username \in Users, authorization \in AuthHeaders :
          (/\ protected_request(username, authorization)
           /\ StripBearer(authorization) \in cache.loggedOut)
          => ret' = 401]_vars


\* C29: on every spec validate_expected_spec accepts and every response,
\* evaluate_expect returns a pair (ok, failures) and raises nothing, and ok
\* is true exactly when failures is empty.
C29_AcceptedSpecEvaluatesToVerdict ==
    (/\ fn = "evaluate_expect"
     /\ ~IsRaised(ret.valid)
     /\ Val(ret.valid)[1])
    => /\ ~IsRaised(ret.outcome)
       /\ Val(ret.outcome)[1] <=> (Val(ret.outcome)[2] = <<>>)

====
